---- MODULE Spec2Model ----
(***************************************************************************)
(* BGP Link-State NLRI decoding (bgpd/bgp_bgpls_nlri.c): the node, link    *)
(* and prefix NLRI decoders over a byte stream, and the link-state         *)
(* attribute TLV display walker.                                           *)
(*                                                                         *)
(* A byte is a number in 0..255 and a buffer a sequence of bytes; offsets  *)
(* are 0-based as in the C code, so the byte at offset p is data[p + 1].   *)
(* Values wider than 16 bits (the 64-bit NLRI identifier, IPv4/IPv6        *)
(* addresses, descriptor values copied with stream_get) are kept as the    *)
(* byte strings the code copies, in wire order.                            *)
(***************************************************************************)
EXTENDS Integers, Sequences, FiniteSets, TLC

VARIABLES
    input,      \* how the received buffer was produced: NLRI kind, TLVs, damage
    s,          \* struct stream: [data, getp]
    nlri,       \* attr->mp_bgpls_nlri
    ret,        \* what the decoder handed back to the attribute parser
    log,        \* what the decode did: stores, zlog lines, scope overruns
    pc,         \* "ready" before the operation runs, "done" after
    te,         \* the memory at &te->header: the attribute and what lies behind it
    build,      \* the build's byte order and pointer size
    vty,        \* TRUE when show_bgp_linkstate_print_detail has a vty to write to
    show,       \* what the display walk did: sum, output, highest byte touched
    bfd,        \* staticd: the next hops, their BFD sessions and what zebra was told
    isis        \* lib/isis.c: the scratch buffers of lib_isis_format_id

vars == <<input, s, nlri, ret, log, pc, te, build, vty, show, bfd, isis>>

(***************************************************************************)
(* Bounds of the model.                                                    *)
(***************************************************************************)
\* sub-TLVs carried by one Node Descriptors TLV of a node NLRI
MaxSubTlvs == 2
\* top-level TLVs carried by one link or prefix NLRI
MaxTopTlvs == 2
\* bytes by which a Node Descriptors TLV may under-declare its length
MaxShort == 7
\* TLVs in one link-state attribute handed to the display walker
MaxAttrTlvs == 2

(***************************************************************************)
(* Code points and lengths (RFC 7752, bgpd/bgp_ls.h).                      *)
(***************************************************************************)
BGP_NLRI_TLV_LOCAL_NODE_DESCRIPTORS == 256
BGP_NLRI_TLV_REMOTE_NODE_DESCRIPTORS == 257
BGP_NLRI_TLV_LINK_LOCAL_REMOTE_IDENTIFIERS == 258
BGP_NLRI_TLV_IPV4_INTERFACE_ADDRESS == 259
BGP_NLRI_TLV_IPV4_NEIGHBOR_ADDRESS == 260
BGP_NLRI_TLV_IPV6_INTERFACE_ADDRESS == 261
BGP_NLRI_TLV_IPV6_NEIGHBOR_ADDRESS == 262
BGP_NLRI_TLV_MULTI_TOPOLOGY_ID == 263
BGP_NLRI_TLV_OSPF_ROUTE_TYPE == 264
BGP_NLRI_TLV_IP_REACHABILITY_INFORMATION == 265
BGP_NLRI_TLV_AUTONOMOUS_SYSTEM == 512
BGP_NLRI_TLV_BGP_LS_IDENTIFIER == 513
BGP_NLRI_TLV_AREA_ID == 514
BGP_NLRI_TLV_IGP_ROUTER_ID == 515
BGP_NLRI_TLV_LEN_AUTONOMOUS_SYSTEM == 4
BGP_NLRI_TLV_LEN_BGP_LS_IDENTIFIER == 4
BGP_NLRI_TLV_LEN_AREA_ID == 4
BGP_NLRI_IS_IS_NON_PSEUDONODE == 6
BGP_NLRI_IS_IS_PSEUDONODE == 7
BGP_NLRI_OSPF_NON_PSEUDONODE == 4
BGP_NLRI_OSPF_PSEUDONODE == 8
BGP_NLRI_TLV_LEN_IPV6_INTERFACE_ADDRESS == 16
BGP_NLRI_TLV_LEN_IPV6_NEIGHBOR_ADDRESS == 16

(***************************************************************************)
(* struct stream (lib/stream.c), as the byte cursor of the design: a read  *)
(* of n bytes advances getp by n, and a read of more bytes than remain     *)
(* fails (TruncatedInput) without moving; the decode ends at that read.    *)
(* A run record r carries the cursor and everything the decoder has done:  *)
(*   getp    read position                                                 *)
(*   val     the bytes of the last read                                    *)
(*   fail    a read asked for more bytes than the buffer holds             *)
(*   nlri    attr->mp_bgpls_nlri                                           *)
(*   scope   end offset of the Node Descriptors TLV being decoded, or -1   *)
(*   over    a read took a byte at an offset >= scope                      *)
(*   stores  the stores into nlri, in order                                *)
(*   logs    the zlog_info lines, in order                                 *)
(*   tlvs    top-level TLV headers read                                    *)
(*   ret     the decoder's return value, "TruncatedInput" after a failed   *)
(*           read                                                          *)
(***************************************************************************)
U16(b) == b[1] * 256 + b[2]

STREAM_READABLE(data, r) == Len(data) - r.getp

stream_get(data, r, n) ==
    IF r.fail THEN r
    ELSE IF STREAM_READABLE(data, r) < n THEN [r EXCEPT !.fail = TRUE]
    ELSE [r EXCEPT !.getp = @ + n,
                   !.val = SubSeq(data, r.getp + 1, r.getp + n),
                   !.over = @ \/ (r.scope >= 0 /\ n > 0 /\ r.getp + n > r.scope)]

stream_getc(data, r) == stream_get(data, r, 1)

stream_getw(data, r) == stream_get(data, r, 2)

stream_getq(data, r) == stream_get(data, r, 8)

stream_get_ipv4(data, r) == stream_get(data, r, 4)

(***************************************************************************)
(* attr->mp_bgpls_nlri before a decode: nothing stored yet.                *)
(***************************************************************************)
mp_bgpls_nlri_new ==
    [ext_hdr |-> [proto_id |-> 0, nlri_identifier |-> <<>>],
     local_node |-> [value |-> <<>>],
     remote_node |-> [value |-> <<>>],
     llri |-> [local |-> 0, remote |-> 0],
     i4ia |-> [value |-> <<>>],
     i4na |-> [value |-> <<>>],
     i6ia |-> [value |-> <<>>],
     i6na |-> [value |-> <<>>],
     mid |-> [value |-> <<>>],
     ort |-> [value |-> 0],
     ipreach |-> [prefix |-> 0, value |-> <<>>]]

run_new ==
    [getp |-> 0, val |-> <<>>, fail |-> FALSE, nlri |-> mp_bgpls_nlri_new,
     scope |-> -1, over |-> FALSE, stores |-> <<>>, logs |-> <<>>, tlvs |-> <<>>,
     ret |-> "none"]

\* a store of v into nlri.<fld>.<sub>, made while handling a (sub-)TLV of type
\* `code` inside the top-level TLV of type `top`
store_field(r, fld, sub, v, top, code) ==
    IF r.fail THEN r
    ELSE [r EXCEPT !.nlri[fld][sub] = v,
                   !.stores = Append(@, [field |-> fld, sub |-> sub, top |-> top,
                                         code |-> code, value |-> v])]

\* stream_get(nlri-><fld>->value, s, n): the last read is what was copied
store_value(r, fld, top, code) == store_field(r, fld, "value", r.val, top, code)

zlog_info(r, msg) == IF r.fail THEN r ELSE [r EXCEPT !.logs = Append(@, msg)]

return(r, code) == [r EXCEPT !.ret = IF r.fail THEN "TruncatedInput" ELSE code]

(***************************************************************************)
(* The 9-byte protocol header and the first TLV header, read the same way  *)
(* by the three decoders.                                                  *)
(***************************************************************************)
ext_hdr_decode(data) ==
    LET a == stream_getc(data, run_new)
        b == stream_getq(data,
                 IF a.fail THEN a ELSE [a EXCEPT !.nlri.ext_hdr.proto_id = a.val[1]])
    IN  IF b.fail THEN b ELSE [b EXCEPT !.nlri.ext_hdr.nlri_identifier = b.val]

\* type = stream_getw(s); length = stream_getw(s); val is <<type, length>>
tlv_hdr_decode(data, r) ==
    LET t == stream_getw(data, r)
        l == stream_getw(data, t)
    IN  IF l.fail THEN l
        ELSE [l EXCEPT !.val = <<U16(t.val), U16(l.val)>>,
                       !.tlvs = Append(@, [type |-> U16(t.val), length |-> U16(l.val),
                                           at |-> r.getp])]

\* node_type = stream_getw(s); node_length = stream_getw(s)
sub_hdr_decode(data, r) ==
    LET t == stream_getw(data, r)
        l == stream_getw(data, t)
    IN  IF l.fail THEN l ELSE [l EXCEPT !.val = <<U16(t.val), U16(l.val)>>]

IgpRouterIdLengths ==
    {BGP_NLRI_IS_IS_NON_PSEUDONODE, BGP_NLRI_IS_IS_PSEUDONODE,
     BGP_NLRI_OSPF_NON_PSEUDONODE, BGP_NLRI_OSPF_PSEUDONODE}

(***************************************************************************)
(* switch (node_type) of a descriptor loop.  The four copies of the switch *)
(* differ only in the struct the values are copied into: fixedFld for the  *)
(* three 4-byte kinds, ridFld for the IGP Router-ID.                       *)
(***************************************************************************)
node_type_switch(data, r, node_type, node_length, top, fixedFld, ridFld) ==
    CASE node_type = BGP_NLRI_TLV_AUTONOMOUS_SYSTEM ->
            store_value(stream_get(data, r, BGP_NLRI_TLV_LEN_AUTONOMOUS_SYSTEM),
                        fixedFld, top, node_type)
      [] node_type = BGP_NLRI_TLV_BGP_LS_IDENTIFIER ->
            store_value(stream_get(data, r, BGP_NLRI_TLV_LEN_BGP_LS_IDENTIFIER),
                        fixedFld, top, node_type)
      [] node_type = BGP_NLRI_TLV_AREA_ID ->
            store_value(stream_get(data, r, BGP_NLRI_TLV_LEN_AREA_ID),
                        fixedFld, top, node_type)
      [] node_type = BGP_NLRI_TLV_IGP_ROUTER_ID ->
            IF node_length \in IgpRouterIdLengths
            THEN store_value(stream_get(data, r, node_length), ridFld, top, node_type)
            ELSE zlog_info(r, "invalid IGP Router-ID")
      [] OTHER -> zlog_info(r, "invalid Node Descriptor")

(***************************************************************************)
(* bgp_mp_node_decode                                                      *)
(***************************************************************************)
\* while (stream_get_getp(s) < nlri_node_endp) { ...; break; }
node_decode_loop(data, r, nlri_node_endp, top) ==
    IF r.fail \/ ~(r.getp < nlri_node_endp) THEN r
    ELSE LET h == sub_hdr_decode(data, r)
         IN  IF h.fail THEN h
             ELSE node_type_switch(data, h, h.val[1], h.val[2], top,
                                   "local_node", "local_node")

bgp_mp_node_decode(data) ==
    LET h == tlv_hdr_decode(data, ext_hdr_decode(data))
    IN  IF h.fail THEN return(h, "BGP_ATTR_PARSE_PROCEED")
        ELSE LET type == h.val[1]
                 length == h.val[2]
                 w == IF type # BGP_NLRI_TLV_LOCAL_NODE_DESCRIPTORS
                      THEN zlog_info(h, "invalid Node Descriptor") ELSE h
                 nlri_node_endp == w.getp + length
             IN  return(node_decode_loop(data, [w EXCEPT !.scope = nlri_node_endp],
                                         nlri_node_endp, type),
                        "BGP_ATTR_PARSE_PROCEED")

(***************************************************************************)
(* bgp_mp_link_decode                                                      *)
(***************************************************************************)
RECURSIVE descriptor_loop(_, _, _, _, _, _)
\* while (stream_get_getp(s) < nlri_node_endp) { ... }
descriptor_loop(data, r, nlri_node_endp, top, fixedFld, ridFld) ==
    IF r.fail \/ ~(r.getp < nlri_node_endp) THEN r
    ELSE LET h == sub_hdr_decode(data, r)
         IN  IF h.fail THEN h
             ELSE descriptor_loop(data,
                      node_type_switch(data, h, h.val[1], h.val[2], top,
                                       fixedFld, ridFld),
                      nlri_node_endp, top, fixedFld, ridFld)

RECURSIVE multi_topology_loop(_, _, _, _, _)
\* for (i = 0; i <= (n - 1); i++) mid->value[i] = stream_getw(s);
multi_topology_loop(data, r, i, n, top) ==
    IF r.fail \/ ~(i <= n - 1) THEN r
    ELSE LET g == stream_getw(data, r)
         IN  IF g.fail THEN g
             ELSE multi_topology_loop(data,
                      store_field(g, "mid", "value",
                                  Append(g.nlri.mid.value, U16(g.val)),
                                  top, top),
                      i + 1, n, top)

\* case BGP_NLRI_TLV_MULTI_TOPOLOGY_ID of the link and prefix decoders
multi_topology_decode(data, r, top) ==
    LET h == sub_hdr_decode(data, r)
    IN  IF h.fail THEN h
        ELSE multi_topology_loop(data, h, 0, h.val[2] \div 2, top)

\* node_type = stream_getw(s); node_length = stream_getw(s);
\* stream_get(&nlri.<fld>.value, s, n)
fixed_value_decode(data, r, n, fld, top) ==
    LET h == sub_hdr_decode(data, r)
    IN  IF h.fail THEN h ELSE store_value(stream_get(data, h, n), fld, top, top)

\* node_type = stream_getw(s); node_length = stream_getw(s);
\* nlri.<fld>.value.s_addr = stream_get_ipv4(s)
ipv4_address_decode(data, r, fld, top) ==
    LET h == sub_hdr_decode(data, r)
    IN  IF h.fail THEN h ELSE store_value(stream_get_ipv4(data, h), fld, top, top)

link_local_remote_identifiers_decode(data, r, top) ==
    LET h == sub_hdr_decode(data, r)
        a == stream_getw(data, h)
        a1 == IF a.fail THEN a ELSE store_field(a, "llri", "local", U16(a.val), top, top)
        b == stream_getw(data, a1)
    IN  IF b.fail THEN b ELSE store_field(b, "llri", "remote", U16(b.val), top, top)

link_type_switch(data, r, type, nlri_node_endp) ==
    CASE type = BGP_NLRI_TLV_LOCAL_NODE_DESCRIPTORS ->
            descriptor_loop(data, [r EXCEPT !.scope = nlri_node_endp], nlri_node_endp,
                            type, "local_node", "local_node")
      [] type = BGP_NLRI_TLV_REMOTE_NODE_DESCRIPTORS ->
            descriptor_loop(data, [r EXCEPT !.scope = nlri_node_endp], nlri_node_endp,
                            type, "local_node", "remote_node")
      [] type = BGP_NLRI_TLV_LINK_LOCAL_REMOTE_IDENTIFIERS ->
            link_local_remote_identifiers_decode(data, r, type)
      [] type = BGP_NLRI_TLV_IPV4_INTERFACE_ADDRESS ->
            ipv4_address_decode(data, r, "i4ia", type)
      [] type = BGP_NLRI_TLV_IPV4_NEIGHBOR_ADDRESS ->
            ipv4_address_decode(data, r, "i4na", type)
      [] type = BGP_NLRI_TLV_IPV6_INTERFACE_ADDRESS ->
            fixed_value_decode(data, r, BGP_NLRI_TLV_LEN_IPV6_INTERFACE_ADDRESS,
                               "i6ia", type)
      [] type = BGP_NLRI_TLV_IPV6_NEIGHBOR_ADDRESS ->
            fixed_value_decode(data, r, BGP_NLRI_TLV_LEN_IPV6_NEIGHBOR_ADDRESS,
                               "i6ia", type)
      [] type = BGP_NLRI_TLV_MULTI_TOPOLOGY_ID ->
            multi_topology_decode(data, r, type)
      [] OTHER -> r

bgp_mp_link_decode(data) ==
    LET h == tlv_hdr_decode(data, ext_hdr_decode(data))
    IN  IF h.fail THEN return(h, "BGP_ATTR_PARSE_PROCEED")
        ELSE return(link_type_switch(data, h, h.val[1], h.getp + h.val[2]),
                    "BGP_ATTR_PARSE_PROCEED")

(***************************************************************************)
(* bgp_mp_prefix_decode                                                    *)
(***************************************************************************)
ip_reachability_decode(data, r, top) ==
    LET h == sub_hdr_decode(data, r)
        p == stream_getc(data, h)
        p1 == IF p.fail THEN p
              ELSE store_field(p, "ipreach", "prefix", p.val[1], top, top)
    IN  IF p1.fail THEN p1
        ELSE store_value(stream_get(data, p1, p1.nlri.ipreach.prefix),
                         "ipreach", top, top)

ospf_route_type_decode(data, r, top) ==
    LET h == sub_hdr_decode(data, r)
        c == stream_getc(data, h)
    IN  IF c.fail THEN c ELSE store_field(c, "ort", "value", c.val[1], top, top)

\* bgp_mp_prefix_decode with the default case falling out of the switch to the
\* common return, as it does in bgp_mp_link_decode
bgp_mp_prefix_decode_default_break(data) ==
    LET h == tlv_hdr_decode(data, ext_hdr_decode(data))
    IN  IF h.fail THEN return(h, "BGP_ATTR_PARSE_PROCEED")
        ELSE LET type == h.val[1]
                 nlri_node_endp == h.getp + h.val[2]
             IN  CASE type = BGP_NLRI_TLV_LOCAL_NODE_DESCRIPTORS ->
                        return(descriptor_loop(data,
                                   [h EXCEPT !.scope = nlri_node_endp],
                                   nlri_node_endp, type, "local_node", "local_node"),
                               "BGP_ATTR_PARSE_PROCEED")
                   [] type = BGP_NLRI_TLV_MULTI_TOPOLOGY_ID ->
                        return(multi_topology_decode(data, h, type),
                               "BGP_ATTR_PARSE_PROCEED")
                   [] type = BGP_NLRI_TLV_OSPF_ROUTE_TYPE ->
                        return(ospf_route_type_decode(data, h, type),
                               "BGP_ATTR_PARSE_PROCEED")
                   [] type = BGP_NLRI_TLV_IP_REACHABILITY_INFORMATION ->
                        return(ip_reachability_decode(data, h, type),
                               "BGP_ATTR_PARSE_PROCEED")
                   [] OTHER ->
                        return(zlog_info(h, "invalid Link State IS-IS TLV"),
                               "BGP_ATTR_PARSE_PROCEED")

bgp_mp_prefix_decode(data) ==
    LET h == tlv_hdr_decode(data, ext_hdr_decode(data))
    IN  IF h.fail THEN return(h, "BGP_ATTR_PARSE_PROCEED")
        ELSE LET type == h.val[1]
                 length == h.val[2]
                 nlri_node_endp == h.getp + length
             IN  CASE type = BGP_NLRI_TLV_LOCAL_NODE_DESCRIPTORS ->
                        return(descriptor_loop(data,
                                   [h EXCEPT !.scope = nlri_node_endp],
                                   nlri_node_endp, type, "local_node", "local_node"),
                               "BGP_ATTR_PARSE_PROCEED")
                   [] type = BGP_NLRI_TLV_MULTI_TOPOLOGY_ID ->
                        return(multi_topology_decode(data, h, type),
                               "BGP_ATTR_PARSE_PROCEED")
                   [] type = BGP_NLRI_TLV_OSPF_ROUTE_TYPE ->
                        return(ospf_route_type_decode(data, h, type),
                               "BGP_ATTR_PARSE_PROCEED")
                   [] type = BGP_NLRI_TLV_IP_REACHABILITY_INFORMATION ->
                        return(ip_reachability_decode(data, h, type),
                               "BGP_ATTR_PARSE_PROCEED")
                   [] OTHER ->
                        return(zlog_info(h, "invalid Link State IS-IS TLV"),
                               "BGP_ATTR_PARSE_ERROR_NOTIFYPLS")

(***************************************************************************)
(* Link-state attribute display: show_bgp_linkstate_print_detail and its   *)
(* formatters.  mem is the memory starting at &te->header, tlvh an offset  *)
(* into it.  A formatter gives back                                        *)
(*   ret    its return value (uint16_t)                                    *)
(*   end    the offset just behind the last byte it dereferenced           *)
(*   oob    it dereferenced memory behind mem (what happens then is not    *)
(*          defined; the walk is followed no further)                      *)
(*   entry  what it wrote to the vty or the log                            *)
(***************************************************************************)
BGP_NLRI_TLV_NODE_FLAG_BITS == 1024
BGP_NLRI_TLV_OPAQUE_NODE_PROPERTIES == 1025
BGP_NLRI_TLV_NODE_NAME == 1026
BGP_NLRI_TLV_IS_IS_AREA_IDENTIFIER == 1027
BGP_NLRI_TLV_IPV4_ROUTER_ID_OF_LOCAL_NODE == 1028
BGP_NLRI_TLV_IPV6_ROUTER_ID_OF_LOCAL_NODE == 1029
BGP_NLRI_TLV_IPV4_ROUTER_ID_OF_REMOTE_NODE == 1030
BGP_NLRI_TLV_IPV6_ROUTER_ID_OF_REMOTE_NODE == 1031
BGP_NLRI_TLV_ADMINISTRATIVE_GROUP_COLOR == 1088
BGP_NLRI_TLV_MAX_LINK_BANDWIDTH == 1089
BGP_NLRI_TLV_MAX_RESERVABLE_LINK_BANDWIDTH == 1090
BGP_NLRI_TLV_UNRESERVED_BANDWIDTH == 1091
BGP_NLRI_TLV_TE_DEFAULT_METRIC == 1092
BGP_NLRI_TLV_LINK_PROTECTION_TYPE == 1093
BGP_NLRI_TLV_MPLS_PROTOCOL_MASK == 1094
BGP_NLRI_TLV_IGP_METRIC == 1095
BGP_NLRI_TLV_SHARED_RISK_LINK_GROUP == 1096
BGP_NLRI_TLV_OPAQUE_LINK_ATTRIBUTE == 1097
BGP_NLRI_TLV_LINK_NAME_ATTRIBUTE == 1098
BGP_NLRI_TLV_IGP_FLAGS == 1152
BGP_NLRI_TLV_ROUTE_TAG == 1153
BGP_NLRI_TLV_EXTENDED_TAG == 1154
BGP_NLRI_TLV_PREFIX_METRIC == 1155
BGP_NLRI_TLV_OSPF_FORWARDING_ADDRESS == 1156
BGP_NLRI_TLV_OPAQUE_PREFIX_ATTRIBUTE == 1157
BGP_NLRI_TLV_LEN_IPV4_FOWARDING_ADDRESS == 4
BGP_NLRI_TLV_LEN_IPV6_FOWARDING_ADDRESS == 16
BGP_TLV_HDR_SIZE == 4
CMD_WARNING == 1

\* ntohs(field): the two bytes at offset off, most significant first
ntohs(mem, off) == mem[off + 1] * 256 + mem[off + 2]

\* the field read as it lies in memory, without ntohs
host_u16(mem, off, order) ==
    IF order = "big" THEN mem[off + 1] * 256 + mem[off + 2]
    ELSE mem[off + 2] * 256 + mem[off + 1]

\* header and value of the TLV at tlvh
BGP_TLV_SIZE(mem, tlvh) == BGP_TLV_HDR_SIZE + ntohs(mem, tlvh + 2)

BGP_TLV_HDR_NEXT(mem, tlvh) == tlvh + BGP_TLV_SIZE(mem, tlvh)

Uint16(n) == n % 65536

Max(a, b) == IF a > b THEN a ELSE b

\* a formatter that dereferenced [tlvh, tlvh + n) and wrote entry
formatted(mem, tlvh, n, entry, size) ==
    IF tlvh + n > Len(mem)
    THEN [ret |-> 0, end |-> tlvh + n, oob |-> TRUE, entry |-> entry]
    ELSE [ret |-> Uint16(size), end |-> tlvh + n, oob |-> FALSE, entry |-> entry]

\* bytes of the value a fixed-layout formatter prints, by TLV type (the width
\* of the value member of the struct the formatter casts the TLV to); the
\* opaque and name formatters print only the value's address
FixedWidth(type) ==
    CASE type = BGP_NLRI_TLV_NODE_FLAG_BITS -> 1
      [] type = BGP_NLRI_TLV_OPAQUE_NODE_PROPERTIES -> 0
      [] type = BGP_NLRI_TLV_NODE_NAME -> 0
      [] type = BGP_NLRI_TLV_IS_IS_AREA_IDENTIFIER -> 0
      [] type = BGP_NLRI_TLV_IPV4_ROUTER_ID_OF_LOCAL_NODE -> 4
      [] type = BGP_NLRI_TLV_IPV6_ROUTER_ID_OF_LOCAL_NODE -> 16
      [] type = BGP_NLRI_TLV_IPV4_ROUTER_ID_OF_REMOTE_NODE -> 4
      [] type = BGP_NLRI_TLV_IPV6_ROUTER_ID_OF_REMOTE_NODE -> 16
      [] type = BGP_NLRI_TLV_ADMINISTRATIVE_GROUP_COLOR -> 4
      [] type = BGP_NLRI_TLV_MAX_LINK_BANDWIDTH -> 4
      [] type = BGP_NLRI_TLV_MAX_RESERVABLE_LINK_BANDWIDTH -> 4
      [] type = BGP_NLRI_TLV_UNRESERVED_BANDWIDTH -> 32
      [] type = BGP_NLRI_TLV_TE_DEFAULT_METRIC -> 4
      [] type = BGP_NLRI_TLV_LINK_PROTECTION_TYPE -> 2
      [] type = BGP_NLRI_TLV_MPLS_PROTOCOL_MASK -> 1
      [] type = BGP_NLRI_TLV_IGP_METRIC -> 1
      [] type = BGP_NLRI_TLV_OPAQUE_LINK_ATTRIBUTE -> 0
      [] type = BGP_NLRI_TLV_LINK_NAME_ATTRIBUTE -> 0
      [] type = BGP_NLRI_TLV_IGP_FLAGS -> 1
      [] type = BGP_NLRI_TLV_PREFIX_METRIC -> 4
      [] type = BGP_NLRI_TLV_OPAQUE_PREFIX_ATTRIBUTE -> 0

FixedTypes ==
    (BGP_NLRI_TLV_NODE_FLAG_BITS..BGP_NLRI_TLV_IPV6_ROUTER_ID_OF_REMOTE_NODE)
    \cup (BGP_NLRI_TLV_ADMINISTRATIVE_GROUP_COLOR..BGP_NLRI_TLV_IGP_METRIC)
    \cup {BGP_NLRI_TLV_OPAQUE_LINK_ATTRIBUTE, BGP_NLRI_TLV_LINK_NAME_ATTRIBUTE,
          BGP_NLRI_TLV_IGP_FLAGS, BGP_NLRI_TLV_PREFIX_METRIC,
          BGP_NLRI_TLV_OPAQUE_PREFIX_ATTRIBUTE}

\* the TLV types the walker's switch has a case for
KnownAttrTypes ==
    FixedTypes \cup {BGP_NLRI_TLV_MULTI_TOPOLOGY_ID, BGP_NLRI_TLV_SHARED_RISK_LINK_GROUP,
                     BGP_NLRI_TLV_ROUTE_TAG, BGP_NLRI_TLV_EXTENDED_TAG,
                     BGP_NLRI_TLV_OSPF_FORWARDING_ADDRESS}

Bytes(mem, off, n) == SubSeq(mem, off + 1, off + n)

\* the formatters that print one value of a fixed layout and return BGP_TLV_SIZE
show_vty_fixed(mem, tlvh, type, sink) ==
    LET w == FixedWidth(type)
        n == BGP_TLV_HDR_SIZE + w
    IN  formatted(mem, tlvh, n,
                  [sink |-> sink, what |-> type,
                   value |-> IF tlvh + n > Len(mem) THEN <<>>
                             ELSE Bytes(mem, tlvh + BGP_TLV_HDR_SIZE, w)],
                  BGP_TLV_SIZE(mem, tlvh))

\* the formatters that print n = length / unit elements of width bytes each
show_vty_array(mem, tlvh, type, sink, unit, width) ==
    LET n == ntohs(mem, tlvh + 2) \div unit
        len == BGP_TLV_HDR_SIZE + n * width
    IN  formatted(mem, tlvh, len,
                  [sink |-> sink, what |-> type, count |-> n,
                   value |-> IF tlvh + len > Len(mem) THEN <<>>
                             ELSE [i \in 1..n |->
                                      Bytes(mem, tlvh + BGP_TLV_HDR_SIZE + (i - 1) * width,
                                            width)]],
                  BGP_TLV_SIZE(mem, tlvh))

\* sizeof(top->value[0]) of the multi-topology struct: a uint16_t
show_vty_multi_topology_identifier(mem, tlvh, sink) ==
    show_vty_array(mem, tlvh, BGP_NLRI_TLV_MULTI_TOPOLOGY_ID, sink, 2, 2)

\* n = length / sizeof(&top->value[0]): the size of a pointer
show_vty_shared_risk_link_group(mem, tlvh, sink, ptr) ==
    show_vty_array(mem, tlvh, BGP_NLRI_TLV_SHARED_RISK_LINK_GROUP, sink, ptr, 4)

show_vty_bgp_nlri_tlv_route_tag(mem, tlvh, sink, ptr) ==
    show_vty_array(mem, tlvh, BGP_NLRI_TLV_ROUTE_TAG, sink, ptr, 4)

show_vty_bgp_nlri_tlv_extended_tag(mem, tlvh, sink, ptr) ==
    show_vty_array(mem, tlvh, BGP_NLRI_TLV_EXTENDED_TAG, sink, ptr, 8)

\* with a vty: one line per matching length (the length compared as it lies in
\* memory); without: both the IPv4 and the IPv6 line
show_bgp_nlri_tlv_ospf_fowarding_adress(mem, tlvh, sink, order) ==
    LET raw == host_u16(mem, tlvh + 2, order)
        v4 == sink = "log" \/ raw = BGP_NLRI_TLV_LEN_IPV4_FOWARDING_ADDRESS
        v6 == sink = "log" \/ raw = BGP_NLRI_TLV_LEN_IPV6_FOWARDING_ADDRESS
        w == IF v6 THEN 16 ELSE IF v4 THEN 4 ELSE 0
        n == BGP_TLV_HDR_SIZE + w
    IN  formatted(mem, tlvh, n,
                  [sink |-> sink, what |-> BGP_NLRI_TLV_OSPF_FORWARDING_ADDRESS,
                   lines |-> (IF v4 THEN <<"IPv4">> ELSE <<>>)
                             \o (IF v6 THEN <<"IPv6">> ELSE <<>>)],
                  BGP_TLV_SIZE(mem, tlvh))

\* show_vty_unknown_tlv returning its line counter rtn (1 when nothing was
\* dumped) in place of BGP_TLV_HDR_SIZE
show_vty_unknown_tlv_returns_rtn(mem, tlvh, sink, order) ==
    formatted(mem, tlvh, BGP_TLV_HDR_SIZE,
              [sink |-> sink, what |-> "Unknown TLV",
               type |-> host_u16(mem, tlvh, order),
               length |-> host_u16(mem, tlvh + 2, order), dump |-> <<>>],
              1)

\* with a vty and a length (as it lies in memory) other than 0, v[0..length-1]
\* is dumped, v pointing at the TLV header; the return value is the header size
show_vty_unknown_tlv(mem, tlvh, sink, order) ==
    LET raw == host_u16(mem, tlvh + 2, order)
        n == IF sink = "vty" /\ raw # 0 THEN Max(raw, BGP_TLV_HDR_SIZE)
             ELSE BGP_TLV_HDR_SIZE
    IN  formatted(mem, tlvh, n,
                  [sink |-> sink, what |-> "Unknown TLV",
                   type |-> host_u16(mem, tlvh, order), length |-> raw,
                   dump |-> IF sink = "vty" /\ raw # 0 /\ tlvh + n <= Len(mem)
                            THEN Bytes(mem, tlvh, raw) ELSE <<>>],
                  BGP_TLV_HDR_SIZE)

\* switch (ntohs(tlvh->nlri_type)) of the walker
show_switch(mem, tlvh, sink, bld) ==
    LET type == ntohs(mem, tlvh)
    IN  CASE type = BGP_NLRI_TLV_MULTI_TOPOLOGY_ID ->
                show_vty_multi_topology_identifier(mem, tlvh, sink)
          [] type \in FixedTypes -> show_vty_fixed(mem, tlvh, type, sink)
          [] type = BGP_NLRI_TLV_SHARED_RISK_LINK_GROUP ->
                show_vty_shared_risk_link_group(mem, tlvh, sink, bld.ptr)
          [] type = BGP_NLRI_TLV_ROUTE_TAG ->
                show_vty_bgp_nlri_tlv_route_tag(mem, tlvh, sink, bld.ptr)
          [] type = BGP_NLRI_TLV_EXTENDED_TAG ->
                show_vty_bgp_nlri_tlv_extended_tag(mem, tlvh, sink, bld.ptr)
          [] type = BGP_NLRI_TLV_OSPF_FORWARDING_ADDRESS ->
                show_bgp_nlri_tlv_ospf_fowarding_adress(mem, tlvh, sink, bld.order)
          [] OTHER -> show_vty_unknown_tlv(mem, tlvh, sink, bld.order)

show_new == [sum |-> 0, tlvh |-> 0, out |-> <<>>, steps |-> <<>>, end |-> 0,
             oob |-> FALSE, ret |-> -1]

RECURSIVE show_loop(_, _, _, _, _)
\* for (; sum < te->header.nlri_length; tlvh = BGP_TLV_HDR_NEXT(tlvh)) sum += ...
show_loop(mem, w, total, sink, bld) ==
    IF ~(w.sum < total) THEN w
    ELSE IF w.tlvh + BGP_TLV_HDR_SIZE > Len(mem)
    THEN [w EXCEPT !.oob = TRUE, !.end = Max(@, w.tlvh + BGP_TLV_HDR_SIZE),
                   !.steps = Append(@, [tlvh |-> w.tlvh, sum |-> w.sum])]
    ELSE LET f == show_switch(mem, w.tlvh, sink, bld)
             v == [w EXCEPT !.end = Max(@, f.end),
                            !.steps = Append(@, [tlvh |-> w.tlvh, sum |-> w.sum])]
         IN  IF f.oob THEN [v EXCEPT !.oob = TRUE]
             ELSE show_loop(mem,
                            [v EXCEPT !.sum = Uint16(@ + f.ret),
                                      !.out = Append(@, f.entry),
                                      !.tlvh = BGP_TLV_HDR_NEXT(mem, w.tlvh)],
                            total, sink, bld)

\* mem holds at least the header te->header
show_bgp_linkstate_print_detail(mem, sink, bld) ==
    IF host_u16(mem, 0, bld.order) = 0
    THEN [show_new EXCEPT !.ret = CMD_WARNING, !.end = BGP_TLV_HDR_SIZE]
    ELSE LET w == show_loop(mem, [show_new EXCEPT !.end = BGP_TLV_HDR_SIZE],
                            host_u16(mem, 2, bld.order), sink, bld)
         IN  [w EXCEPT !.ret = w.sum]

(***************************************************************************)
(* What arrives.  A sender builds an NLRI as the 9-byte protocol header    *)
(* followed by TLVs, each a 4-byte (type, length) header and its value     *)
(* (RFC 7752 section 3.2).  The buffer handed to a decoder is that NLRI,   *)
(* or the NLRI cut short, or the NLRI with the first Node Descriptors TLV  *)
(* declaring fewer bytes than it carries.                                  *)
(***************************************************************************)
W16(v) == <<v \div 256, v % 256>>

tlv_encode(tlv) == W16(tlv.t) \o W16(tlv.l) \o tlv.v

RECURSIVE tlvs_encode(_)
tlvs_encode(tlvs) ==
    IF tlvs = <<>> THEN <<>> ELSE tlv_encode(Head(tlvs)) \o tlvs_encode(Tail(tlvs))

SubTlv(type, value) == [t |-> type, l |-> Len(value), v |-> value]

SubAs == SubTlv(BGP_NLRI_TLV_AUTONOMOUS_SYSTEM, <<0, 0, 253, 232>>)
SubBgpLsId == SubTlv(BGP_NLRI_TLV_BGP_LS_IDENTIFIER, <<0, 0, 0, 1>>)
SubAreaId == SubTlv(BGP_NLRI_TLV_AREA_ID, <<0, 0, 0, 0>>)
SubRid4 == SubTlv(BGP_NLRI_TLV_IGP_ROUTER_ID, <<10, 0, 0, 1>>)
SubRid6 == SubTlv(BGP_NLRI_TLV_IGP_ROUTER_ID, <<25, 0, 0, 0, 0, 1>>)
SubRid7 == SubTlv(BGP_NLRI_TLV_IGP_ROUTER_ID, <<25, 0, 0, 0, 0, 1, 2>>)
SubRid8 == SubTlv(BGP_NLRI_TLV_IGP_ROUTER_ID, <<10, 0, 0, 1, 10, 0, 0, 9>>)
\* an IGP Router-ID of a length that is none of 4, 6, 7, 8
SubRid5 == SubTlv(BGP_NLRI_TLV_IGP_ROUTER_ID, <<2, 3, 0, 4, 9>>)
\* sub-TLVs of a type the descriptor decoder does not know
SubUnknown0 == SubTlv(516, <<>>)
SubUnknown2 == SubTlv(516, <<7, 7>>)

SubTlvSet ==
    {SubAs, SubBgpLsId, SubAreaId, SubRid4, SubRid6, SubRid7, SubRid8, SubRid5,
     SubUnknown0, SubUnknown2}

SeqsUpTo(S, n) == UNION {[1..k -> S] : k \in 0..n}

\* a Node Descriptors TLV carrying the sub-TLVs subs
DescTlv(type, subs) ==
    [t |-> type, l |-> Len(tlvs_encode(subs)), v |-> tlvs_encode(subs), subs |-> subs]

PlainTlv(type, value) == [t |-> type, l |-> Len(value), v |-> value, subs |-> <<>>]

NodeTlvSet ==
    {DescTlv(BGP_NLRI_TLV_LOCAL_NODE_DESCRIPTORS, subs) :
        subs \in SeqsUpTo(SubTlvSet, MaxSubTlvs)}
    \cup {DescTlv(BGP_NLRI_TLV_REMOTE_NODE_DESCRIPTORS, <<SubAs>>)}

\* the descriptors a link or prefix NLRI is built from
DescSet ==
    {<<SubAs>>, <<SubRid4>>, <<SubAs, SubRid6>>, <<SubRid5>>, <<SubUnknown2, SubAs>>,
     <<SubBgpLsId, SubAreaId>>}

Ipv6Addr(b) == <<32, 1, 13, 184, 0, 0, 0, 0, 0, 0, 0, 0, 0, 0, 0, b>>

LinkTlvSet ==
    {DescTlv(BGP_NLRI_TLV_LOCAL_NODE_DESCRIPTORS, subs) : subs \in DescSet}
    \cup {DescTlv(BGP_NLRI_TLV_REMOTE_NODE_DESCRIPTORS, subs) : subs \in DescSet}
    \cup {PlainTlv(BGP_NLRI_TLV_LINK_LOCAL_REMOTE_IDENTIFIERS, <<0, 5, 0, 9>>),
          PlainTlv(BGP_NLRI_TLV_IPV4_INTERFACE_ADDRESS, <<10, 0, 0, 1>>),
          PlainTlv(BGP_NLRI_TLV_IPV4_NEIGHBOR_ADDRESS, <<10, 0, 0, 2>>),
          PlainTlv(BGP_NLRI_TLV_IPV6_INTERFACE_ADDRESS, Ipv6Addr(1)),
          PlainTlv(BGP_NLRI_TLV_IPV6_NEIGHBOR_ADDRESS, Ipv6Addr(2)),
          PlainTlv(BGP_NLRI_TLV_MULTI_TOPOLOGY_ID, <<0, 2>>),
          PlainTlv(BGP_NLRI_TLV_MULTI_TOPOLOGY_ID, <<0, 1, 0, 2, 0, 3>>),
          PlainTlv(300, <<7, 7>>)}

PrefixTlvSet ==
    {DescTlv(BGP_NLRI_TLV_LOCAL_NODE_DESCRIPTORS, subs) : subs \in DescSet}
    \cup {PlainTlv(BGP_NLRI_TLV_MULTI_TOPOLOGY_ID, <<0, 2>>),
          PlainTlv(BGP_NLRI_TLV_MULTI_TOPOLOGY_ID, <<0, 1, 0, 2, 0, 3>>),
          PlainTlv(BGP_NLRI_TLV_OSPF_ROUTE_TYPE, <<1>>),
          PlainTlv(BGP_NLRI_TLV_IP_REACHABILITY_INFORMATION, <<24, 10, 0, 0>>),
          PlainTlv(BGP_NLRI_TLV_IP_REACHABILITY_INFORMATION, <<2, 192>>),
          PlainTlv(300, <<7, 7>>)}

ProtoIds == {1, 2}

NlriIdentifier == <<0, 0, 0, 0, 0, 0, 0, 1>>

\* RFC 7752 section 3.2: the TLVs of an NLRI are ordered by ascending type
Ascending(seqs) ==
    {q \in seqs : \A i \in 1..Len(q), j \in 1..Len(q) : i < j => q[i].t < q[j].t}

\* the TLV sequences a sender puts into an NLRI of each kind
TlvSeqs(kind) ==
    CASE kind = "node" -> {<<tlv>> : tlv \in NodeTlvSet}
      [] kind = "link" -> Ascending(SeqsUpTo(LinkTlvSet, MaxTopTlvs) \ {<<>>})
      [] kind = "prefix" -> Ascending(SeqsUpTo(PrefixTlvSet, MaxTopTlvs) \ {<<>>})

IsDescriptors(tlv) ==
    tlv.t \in {BGP_NLRI_TLV_LOCAL_NODE_DESCRIPTORS, BGP_NLRI_TLV_REMOTE_NODE_DESCRIPTORS}

\* the bytes the sender meant: header and TLVs, every length exact
nlri_encode(proto, tlvs) == <<proto>> \o NlriIdentifier \o tlvs_encode(tlvs)

\* the same with the first TLV declaring `short` bytes fewer than it carries
nlri_encode_short(proto, tlvs, short) ==
    nlri_encode(proto, <<[Head(tlvs) EXCEPT !.l = @ - short]>> \o Tail(tlvs))

\* the buffer the decoder is given
Wire(in) == SubSeq(nlri_encode_short(in.proto, in.tlvs, in.short), 1, in.cut)

\* the length of the NLRI as sent: 9 header bytes and the TLVs
NaturalLen(tlvs) == 9 + Len(tlvs_encode(tlvs))

NaturalEnd(in) == NaturalLen(in.tlvs)

\* in describes a buffer that can arrive: the NLRI as sent or cut at any offset
\* before its natural end, or the NLRI whole with its first Node Descriptors
\* TLV under-declared
IsInput(in) ==
    /\ in.kind \in {"node", "link", "prefix"}
    /\ in.proto \in ProtoIds
    /\ in.tlvs \in TlvSeqs(in.kind)
    /\ in.cut \in 0..NaturalLen(in.tlvs)
    /\ in.short \in 0..MaxShort
    /\ in.short > 0 =>
          /\ in.cut = NaturalLen(in.tlvs)
          /\ IsDescriptors(Head(in.tlvs))
          /\ in.short <= Head(in.tlvs).l

IsWhole(in) == in.short = 0 /\ in.cut = NaturalEnd(in)

IsTruncated(in) == in.short = 0 /\ in.cut < NaturalEnd(in)

(***************************************************************************)
(* The state machine: a buffer arrives, the decoder matching the NLRI type *)
(* runs on it once.                                                        *)
(***************************************************************************)
log_new == [stores |-> <<>>, logs |-> <<>>, over |-> FALSE, tlvs |-> <<>>]

\* staticd is not part of the run
\* lib_isis_format_id before its first call: the static storage is zeroed
FORMAT_BUF_COUNT == 4

isis_new == [cur_buf |-> 0,
             buf_ring |-> [i \in 0..(FORMAT_BUF_COUNT - 1) |->
                             [text |-> "", call |-> 0]],
             returned |-> <<>>]

\* what the last route group handler reported: its zlog_err line, and whether
\* it called bfd_sess_install
call_none == [err |-> "none", install |-> FALSE]

bfd_none == [sn |-> <<>>, recent |-> <<>>, notified |-> 0,
             event |-> [op |-> "none", sn |-> 0, state |-> "BSS_UNKNOWN"],
             srglist |-> <<>>, call |-> call_none, setters |-> 0]

\* no attribute is being displayed
te_none == [mem |-> <<>>, tlvs |-> <<>>, len |-> 0]

Init ==
    /\ \E kind \in {"node", "link", "prefix"}, proto \in ProtoIds :
         \E tlvs \in TlvSeqs(kind) :
            \E cut \in 0..NaturalLen(tlvs), short \in 0..MaxShort :
               /\ input = [kind |-> kind, proto |-> proto, tlvs |-> tlvs,
                           short |-> short, cut |-> cut]
               /\ IsInput(input)
    /\ s = [data |-> Wire(input), getp |-> 0]
    /\ nlri = mp_bgpls_nlri_new
    /\ ret = "none"
    /\ log = log_new
    /\ pc = "ready"
    /\ te = te_none
    /\ build = [order |-> "big", ptr |-> 8]
    /\ vty = FALSE
    /\ show = show_new
    /\ bfd = bfd_none
    /\ isis = isis_new

\* the state after a decoder ran to its end with run record r
Decoded(r) ==
    /\ s' = [s EXCEPT !.getp = r.getp]
    /\ nlri' = r.nlri
    /\ ret' = r.ret
    /\ log' = [stores |-> r.stores, logs |-> r.logs, over |-> r.over, tlvs |-> r.tlvs]
    /\ pc' = "done"
    /\ UNCHANGED <<input, te, build, vty, show, bfd, isis>>

NodeDecode ==
    /\ pc = "ready"
    /\ input.kind = "node"
    /\ Decoded(bgp_mp_node_decode(s.data))

LinkDecode ==
    /\ pc = "ready"
    /\ input.kind = "link"
    /\ Decoded(bgp_mp_link_decode(s.data))

PrefixDecode ==
    /\ pc = "ready"
    /\ input.kind = "prefix"
    /\ Decoded(bgp_mp_prefix_decode(s.data))

Next == NodeDecode \/ LinkDecode \/ PrefixDecode

Spec == Init /\ [][Next]_vars

(***************************************************************************)
(* The display state machine: a link-state attribute lies in memory and    *)
(* show_bgp_linkstate_print_detail walks it once.                          *)
(***************************************************************************)
AttrTlvSet ==
    {PlainTlv(BGP_NLRI_TLV_IPV4_ROUTER_ID_OF_LOCAL_NODE, <<10, 0, 0, 1>>),
     PlainTlv(BGP_NLRI_TLV_TE_DEFAULT_METRIC, <<0, 0, 0, 10>>),
     PlainTlv(BGP_NLRI_TLV_IGP_FLAGS, <<128>>),
     PlainTlv(BGP_NLRI_TLV_MULTI_TOPOLOGY_ID, <<0, 1, 0, 2>>),
     PlainTlv(BGP_NLRI_TLV_SHARED_RISK_LINK_GROUP, <<0, 0, 0, 1, 0, 0, 0, 2>>),
     PlainTlv(BGP_NLRI_TLV_ROUTE_TAG, <<0, 0, 0, 1, 0, 0, 0, 2>>),
     PlainTlv(BGP_NLRI_TLV_EXTENDED_TAG, <<0, 0, 0, 0, 0, 0, 0, 1>>),
     PlainTlv(BGP_NLRI_TLV_EXTENDED_TAG, <<0, 0, 0, 0, 0, 0, 0, 1, 0, 2>>),
     PlainTlv(BGP_NLRI_TLV_OSPF_FORWARDING_ADDRESS, <<10, 0, 0, 1>>),
     PlainTlv(BGP_NLRI_TLV_OSPF_FORWARDING_ADDRESS, Ipv6Addr(1)),
     PlainTlv(9999, <<>>),
     PlainTlv(9999, <<7, 7>>),
     PlainTlv(9999, <<1, 2, 3, 4, 5, 6, 7, 8>>)}

\* what may lie in memory behind the attribute
MemTails == {<<>>, <<0, 0, 0, 0, 0, 0, 0, 0>>, <<4, 4, 0, 4, 10, 0, 0, 2>>}

Builds == [order : {"big", "little"}, ptr : {4, 8}]

input_none == [kind |-> "none", proto |-> 0, tlvs |-> <<>>, short |-> 0, cut |-> 0]

InitShow ==
    /\ \E tlvs \in SeqsUpTo(AttrTlvSet, MaxAttrTlvs) \ {<<>>}, tail \in MemTails :
          te = [mem |-> tlvs_encode(tlvs) \o tail, tlvs |-> tlvs,
                len |-> Len(tlvs_encode(tlvs))]
    /\ build \in Builds
    /\ vty \in BOOLEAN
    /\ show = show_new
    /\ pc = "ready"
    /\ input = input_none
    /\ s = [data |-> <<>>, getp |-> 0]
    /\ nlri = mp_bgpls_nlri_new
    /\ ret = "none"
    /\ log = log_new
    /\ bfd = bfd_none
    /\ isis = isis_new

ShowDetail ==
    /\ pc = "ready"
    /\ te # te_none
    /\ show' = show_bgp_linkstate_print_detail(te.mem, IF vty THEN "vty" ELSE "log",
                                               build)
    /\ pc' = "done"
    /\ UNCHANGED <<input, s, nlri, ret, log, te, build, vty, bfd, isis>>

NextShow == ShowDetail

SpecShow == InitShow /\ [][NextShow]_vars

(***************************************************************************)
(* Vocabulary of the claims.                                               *)
(***************************************************************************)
Done == pc = "done"

\* a descriptor sub-TLV of a known kind with the length that kind has
KnownSubTlv(sub) ==
    \/ /\ sub.t \in {BGP_NLRI_TLV_AUTONOMOUS_SYSTEM, BGP_NLRI_TLV_BGP_LS_IDENTIFIER,
                     BGP_NLRI_TLV_AREA_ID}
       /\ sub.l = 4
    \/ /\ sub.t = BGP_NLRI_TLV_IGP_ROUTER_ID
       /\ sub.l \in IgpRouterIdLengths

\* a top-level TLV type the decoder of this NLRI kind has a case for
KnownTopTlv(kind, tlv) ==
    CASE kind = "node" -> tlv.t = BGP_NLRI_TLV_LOCAL_NODE_DESCRIPTORS
      [] kind = "link" -> tlv.t \in BGP_NLRI_TLV_LOCAL_NODE_DESCRIPTORS
                                    ..BGP_NLRI_TLV_MULTI_TOPOLOGY_ID
      [] kind = "prefix" -> tlv.t \in {BGP_NLRI_TLV_LOCAL_NODE_DESCRIPTORS,
                                       BGP_NLRI_TLV_MULTI_TOPOLOGY_ID,
                                       BGP_NLRI_TLV_OSPF_ROUTE_TYPE,
                                       BGP_NLRI_TLV_IP_REACHABILITY_INFORMATION}

\* the sender built a valid NLRI: known TLVs, known sub-TLVs, exact lengths
ValidNlri(in) ==
    /\ in.short = 0
    /\ \A i \in 1..Len(in.tlvs) :
          /\ KnownTopTlv(in.kind, in.tlvs[i])
          /\ \A j \in 1..Len(in.tlvs[i].subs) : KnownSubTlv(in.tlvs[i].subs[j])

\* offset of the header of the i-th top-level TLV in the NLRI as sent
TlvOffset(in, i) == 9 + Len(tlvs_encode(SubSeq(in.tlvs, 1, i - 1)))

Stored(fld, code, value) ==
    \E k \in 1..Len(log.stores) :
        /\ log.stores[k].field = fld
        /\ log.stores[k].code = code
        /\ log.stores[k].value = value

(***************************************************************************)
(* C1. Truncation safety: a valid node, link or prefix NLRI cut at any     *)
(* offset before its natural end makes the matching decoder end in a       *)
(* failure (TruncatedInput or TlvOverrun), never in the proceed status,    *)
(* and the read position never leaves the buffer.                          *)
(***************************************************************************)
C1_TruncationFails ==
    (Done /\ ValidNlri(input) /\ IsTruncated(input))
        => /\ ret \in {"TruncatedInput", "TlvOverrun"}
           /\ s.getp <= Len(s.data)

(***************************************************************************)
(* C2. Scope bound: while the sub-TLVs of a Node Descriptors TLV ending at *)
(* offset E are decoded, no byte at an offset >= E is read.                *)
(***************************************************************************)
C2_NoReadPastScope == Done => ~log.over

(***************************************************************************)
(* C3. Round-trip bound: on a valid NLRI buffer the matching decoder ends  *)
(* with the read position equal to the buffer length.                      *)
(***************************************************************************)
C3_ConsumesWholeBuffer ==
    (Done /\ ValidNlri(input) /\ IsWhole(input)) => s.getp = Len(s.data)

\* the struct a Node Descriptors TLV of this type is meant to fill
NodeField(type) ==
    IF type = BGP_NLRI_TLV_REMOTE_NODE_DESCRIPTORS THEN "remote_node" ELSE "local_node"

\* the first TLV of the NLRI is a Node Descriptors TLV whose first sub-TLV is
\* an IGP Router-ID
FirstSubIsRouterId(in) ==
    /\ IsDescriptors(in.tlvs[1])
    /\ KnownTopTlv(in.kind, in.tlvs[1])
    /\ in.tlvs[1].subs # <<>>
    /\ in.tlvs[1].subs[1].t = BGP_NLRI_TLV_IGP_ROUTER_ID

(***************************************************************************)
(* C4. The attribute walker never dereferences a TLV header or value       *)
(* behind the attribute's total declared length (te->header.nlri_length    *)
(* bytes after the header); stated here for the attributes the claim names *)
(* in particular, those made of TLVs of an unknown type.                   *)
(***************************************************************************)
C4_WalkStaysInsideAttribute ==
    (Done /\ \A i \in 1..Len(te.tlvs) : te.tlvs[i].t \notin KnownAttrTypes) =>
        show.end <= BGP_TLV_HDR_SIZE + host_u16(te.mem, 2, build.order)

(***************************************************************************)
(* C5. IGP Router-ID variant selection: an IGP Router-ID sub-TLV of        *)
(* declared length 4, 6, 7 or 8 has exactly that many value bytes stored   *)
(* as the router-id; one of any other length is logged as invalid, stores  *)
(* no router-id and does not make the NLRI decode fail.  Stated for the    *)
(* node and link decoders.                                                 *)
(***************************************************************************)
C5_RouterIdByLength ==
    (Done /\ input.kind \in {"node", "link"} /\ IsWhole(input)
          /\ FirstSubIsRouterId(input)) =>
        LET top == input.tlvs[1]
            rid == top.subs[1]
            ridStores == {k \in 1..Len(log.stores) :
                             log.stores[k].code = BGP_NLRI_TLV_IGP_ROUTER_ID}
        IN  IF rid.l \in {4, 6, 7, 8}
            THEN /\ Len(log.stores) >= 1
                 /\ log.stores[1] = [field |-> NodeField(top.t), sub |-> "value",
                                     top |-> top.t, code |-> rid.t, value |-> rid.v]
            ELSE /\ ridStores = {}
                 /\ log.logs # <<>>
                 /\ log.logs[1] = "invalid IGP Router-ID"
                 /\ ret = "BGP_ATTR_PARSE_PROCEED"

(***************************************************************************)
(* C6. The link decoder processes every top-level TLV of a valid link      *)
(* NLRI: the header of each TLV the sender put in is read at its offset    *)
(* and dispatched.                                                         *)
(***************************************************************************)
C6_LinkDecodesEveryTlv ==
    (Done /\ input.kind = "link" /\ ValidNlri(input) /\ IsWhole(input)) =>
        \A i \in 1..Len(input.tlvs) :
            \E k \in 1..Len(log.tlvs) :
                /\ log.tlvs[k].type = input.tlvs[i].t
                /\ log.tlvs[k].at = TlvOffset(input, i)

(***************************************************************************)
(* C7. Full-scope descriptor loop: every sub-TLV of the Local Node         *)
(* Descriptors TLV of a valid node NLRI is decoded, not only the first.    *)
(***************************************************************************)
C7_NodeDecodesEverySubTlv ==
    (Done /\ input.kind = "node" /\ ValidNlri(input) /\ IsWhole(input)) =>
        \A j \in 1..Len(input.tlvs[1].subs) :
            Stored("local_node", input.tlvs[1].subs[j].t, input.tlvs[1].subs[j].v)

(***************************************************************************)
(* C8. In the link decoder a sub-TLV decoded inside a Remote Node          *)
(* Descriptors TLV is stored in remote_node, one inside a Local Node       *)
(* Descriptors TLV in local_node.                                          *)
(***************************************************************************)
C8_DescriptorsFillOwnNode ==
    (Done /\ input.kind = "link" /\ ValidNlri(input) /\ IsWhole(input)) =>
        \A k \in 1..Len(log.stores) :
            IsDescriptors([t |-> log.stores[k].top]) =>
                log.stores[k].field = NodeField(log.stores[k].top)

(***************************************************************************)
(* C9. Link identifiers: a link NLRI whose top-level TLV is (258, 4, v)    *)
(* decodes to local = the first big-endian u16 of v, remote = the second.  *)
(***************************************************************************)
C9_LinkIdentifiers ==
    (Done /\ input.kind = "link" /\ ValidNlri(input) /\ IsWhole(input)
          /\ input.tlvs[1].t = BGP_NLRI_TLV_LINK_LOCAL_REMOTE_IDENTIFIERS) =>
        nlri.llri = [local |-> U16(SubSeq(input.tlvs[1].v, 1, 2)),
                     remote |-> U16(SubSeq(input.tlvs[1].v, 3, 4))]

(***************************************************************************)
(* C10. Multi-topology count: a top-level Multi-Topology ID TLV of         *)
(* declared length L gives the link and prefix decoders exactly L/2        *)
(* entries, the big-endian u16 values that follow the TLV header.          *)
(***************************************************************************)
C10_MultiTopologyCount ==
    (Done /\ input.kind \in {"link", "prefix"} /\ ValidNlri(input) /\ IsWhole(input)
          /\ input.tlvs[1].t = BGP_NLRI_TLV_MULTI_TOPOLOGY_ID) =>
        nlri.mid.value = [i \in 1..(input.tlvs[1].l \div 2) |->
                             U16(SubSeq(input.tlvs[1].v, 2 * i - 1, 2 * i))]

(***************************************************************************)
(* C11. Prefix IP reachability: when the top-level TLV of a prefix NLRI is *)
(* IP Reachability Information, the decoder sets prefix to the first value *)
(* byte after the TLV header and value to the ceil(prefix / 8) bytes that  *)
(* follow it; the value 24, 10, 0, 0 gives prefix 24 and bytes 10, 0, 0.   *)
(***************************************************************************)
C11_IpReachability ==
    (Done /\ input.kind = "prefix" /\ IsWhole(input)
          /\ input.tlvs[1].t = BGP_NLRI_TLV_IP_REACHABILITY_INFORMATION) =>
        LET v == input.tlvs[1].v
        IN  nlri.ipreach = [prefix |-> v[1],
                            value |-> SubSeq(v, 2, 1 + (v[1] + 7) \div 8)]

\* the decoder read the header of the first top-level TLV
Dispatched == Done /\ log.tlvs # <<>>

C13_NodeSkipsOtherTlv ==
    (Done /\ input.kind = "node" /\ IsWhole(input)
          /\ input.tlvs[1].t # BGP_NLRI_TLV_LOCAL_NODE_DESCRIPTORS) =>
        /\ nlri.local_node.value = <<>>
        /\ log.stores = <<>>
        /\ s.getp = TlvOffset(input, 1) + 4
        /\ ret = "BGP_ATTR_PARSE_PROCEED"

\* the first TLV of the NLRI is a Node Descriptors TLV that starts with a
\* sub-TLV of a type other than 512..515, followed by a sub-TLV of a known kind
UnknownThenKnown(in) ==
    /\ IsDescriptors(in.tlvs[1])
    /\ Len(in.tlvs[1].subs) >= 2
    /\ in.tlvs[1].subs[1].t \notin
          BGP_NLRI_TLV_AUTONOMOUS_SYSTEM..BGP_NLRI_TLV_IGP_ROUTER_ID
    /\ KnownSubTlv(in.tlvs[1].subs[2])

(***************************************************************************)
(* C14. Skip of unrecognized descriptor sub-TLVs: in the link and prefix   *)
(* decoders a sub-TLV of a type other than 512..515 and declared length L  *)
(* is passed over by exactly L bytes, so the recognized sub-TLV that       *)
(* follows it is decoded: its value is stored under its own type.          *)
(***************************************************************************)
C14_UnknownSubTlvSkipped ==
    (Done /\ input.kind \in {"link", "prefix"} /\ IsWhole(input)
          /\ UnknownThenKnown(input)) =>
        LET next == input.tlvs[1].subs[2]
        IN  \E k \in 1..Len(log.stores) :
                /\ log.stores[k].code = next.t
                /\ log.stores[k].value = next.v

\* the type of the k-th TLV the walker dispatched
StepType(k) == ntohs(te.mem, show.steps[k].tlvh)

\* the array-typed attribute TLVs and the width of their elements
ArrayElementWidth(type) ==
    CASE type = BGP_NLRI_TLV_MULTI_TOPOLOGY_ID -> 2
      [] type = BGP_NLRI_TLV_SHARED_RISK_LINK_GROUP -> 4
      [] type = BGP_NLRI_TLV_ROUTE_TAG -> 4
      [] type = BGP_NLRI_TLV_EXTENDED_TAG -> 8

ArrayTypes ==
    {BGP_NLRI_TLV_MULTI_TOPOLOGY_ID, BGP_NLRI_TLV_SHARED_RISK_LINK_GROUP,
     BGP_NLRI_TLV_ROUTE_TAG, BGP_NLRI_TLV_EXTENDED_TAG}

(***************************************************************************)
(* C15. Malformed array: when the attribute starts with an array-typed TLV *)
(* whose declared length is not a multiple of the element width, the       *)
(* formatter renders nothing for it (it fails); otherwise it renders       *)
(* exactly declared length / element width elements.  An Extended-Tag TLV  *)
(* of declared length 10 is not rendered as one element.                   *)
(***************************************************************************)
C15_MalformedArray ==
    (Done /\ te.tlvs[1].t \in ArrayTypes) =>
        LET tlv == te.tlvs[1]
            w == ArrayElementWidth(tlv.t)
        IN  IF tlv.l % w = 0
            THEN /\ show.out # <<>>
                 /\ show.out[1].count = tlv.l \div w
            ELSE show.out = <<>>

\* the k-th TLV the walker dispatched has an unrecognized type and length 0
UnknownEmptyAt(k) ==
    LET at == show.steps[k].tlvh
    IN  /\ at + BGP_TLV_HDR_SIZE <= Len(te.mem)
        /\ ntohs(te.mem, at) \notin KnownAttrTypes
        /\ ntohs(te.mem, at + 2) = 0

\* the walker's position and consumed total after its k-th TLV
WalkerAfter(k) ==
    IF k < Len(show.steps) THEN show.steps[k + 1]
    ELSE [tlvh |-> show.tlvh, sum |-> show.sum]

TwoKinds(in) ==
    /\ in.tlvs[1].t = BGP_NLRI_TLV_LOCAL_NODE_DESCRIPTORS
    /\ Len(in.tlvs[1].subs) = 2
    /\ KnownSubTlv(in.tlvs[1].subs[1])
    /\ KnownSubTlv(in.tlvs[1].subs[2])
    /\ in.tlvs[1].subs[1].t # in.tlvs[1].subs[2].t

(***************************************************************************)
(* C17. Descriptor kinds are stored in separate fields: once the decoder   *)
(* has decoded two sub-TLVs of different kinds (512, 513, 514, 515) in one *)
(* node descriptor, the value of the first is still held by the            *)
(* descriptor: decoding the second did not overwrite it.  Stated for the   *)
(* node and link decoders.                                                 *)
(***************************************************************************)
C17_KindsKeepOwnField ==
    (Done /\ input.kind \in {"node", "link"} /\ IsWhole(input) /\ TwoKinds(input)
          /\ Len(log.stores) >= 2) =>
        \E k \in 1..Len(log.stores) :
            /\ log.stores[k].code = input.tlvs[1].subs[1].t
            /\ nlri[log.stores[k].field].value = input.tlvs[1].subs[1].v

(***************************************************************************)
(* C18. In the link decoder what is read for an IPv6 Neighbor Address TLV  *)
(* (262) is stored in the neighbor field i6na and what is read for an IPv6 *)
(* Interface Address TLV (261) in the interface field i6ia; the two TLV    *)
(* types never write the same field.                                       *)
(***************************************************************************)
C18_Ipv6NeighborOwnField ==
    (Done /\ input.kind = "link") =>
        \A k \in 1..Len(log.stores) :
            /\ log.stores[k].top = BGP_NLRI_TLV_IPV6_NEIGHBOR_ADDRESS
                  => log.stores[k].field = "i6na"
            /\ log.stores[k].top = BGP_NLRI_TLV_IPV6_INTERFACE_ADDRESS
                  => log.stores[k].field = "i6ia"

(***************************************************************************)
(* C19. The OSPF Forwarding Address formatter renders exactly one address  *)
(* per TLV, chosen by the declared length: the IPv4 address when it is 4,  *)
(* the IPv6 address when it is 16, with a vty and without.                 *)
(***************************************************************************)
C19_ForwardingAddressByLength ==
    Done =>
        \A k \in 1..Len(show.out) :
            StepType(k) = BGP_NLRI_TLV_OSPF_FORWARDING_ADDRESS =>
                LET length == ntohs(te.mem, show.steps[k].tlvh + 2)
                IN  /\ length = BGP_NLRI_TLV_LEN_IPV4_FOWARDING_ADDRESS
                          => show.out[k].lines = <<"IPv4">>
                    /\ length = BGP_NLRI_TLV_LEN_IPV6_FOWARDING_ADDRESS
                          => show.out[k].lines = <<"IPv6">>

(***************************************************************************)
(* staticd: BFD monitoring of static next hops (staticd/static_bfd.c).     *)
(* A next hop owns at most one BFD session; the BFD library reports the    *)
(* session's state through the callback registered at bfd_sess_new.        *)
(***************************************************************************)
\* notifications the library delivers in one run
MaxNotifications == 3

\* enum bfd_session_state as static_next_hop_bfd_change switches on it
BfdStates == {"BSS_UNKNOWN", "BSS_ADMIN_DOWN", "BSS_DOWN", "BSS_UP"}

\* the next hop types static_next_hop_bfd_monitor_enable accepts
GatewayTypes == {"STATIC_IPV4_GATEWAY", "STATIC_IPV4_GATEWAY_IFNAME",
                 "STATIC_IPV6_GATEWAY", "STATIC_IPV6_GATEWAY_IFNAME"}

\* sn->bsp == NULL
bsp_null == [alloc |-> FALSE, vrf |-> "VRF_DEFAULT", family |-> "none",
             source |-> FALSE, interface |-> FALSE, profile |-> FALSE,
             hop_count |-> "none", installed |-> FALSE]

\* bfd_sess_new(static_next_hop_bfd_updatecb, sn): a session with nothing set
bfd_sess_new == [bsp_null EXCEPT !.alloc = TRUE]

\* the configured next hops: a gateway, a gateway with interface in another
\* VRF, and an interface-only next hop
static_nexthops ==
    <<[type |-> "STATIC_IPV4_GATEWAY", nh_vrf_id |-> "VRF_DEFAULT"],
      [type |-> "STATIC_IPV6_GATEWAY_IFNAME", nh_vrf_id |-> "vrf1"],
      [type |-> "STATIC_IFNAME", nh_vrf_id |-> "VRF_DEFAULT"]>>

NextHops == 1..Len(static_nexthops)

\* struct static_nexthop as static_bfd.c uses it; route_add counts the calls
\* static_zebra_route_add(sn->pn, true)
static_nexthop_new(cfg) ==
    [type |-> cfg.type, nh_vrf_id |-> cfg.nh_vrf_id, bsp |-> bsp_null,
     path_down |-> FALSE, route_add |-> 0]

\* the BFD configuration node handed to the enable handler: plain single hop,
\* multi-hop with profile and source, and multi-hop asked for on an onlink
\* next hop
Dnodes ==
    {[profile |-> FALSE, onlink |-> FALSE, mhop |-> FALSE, source |-> FALSE],
     [profile |-> TRUE, onlink |-> FALSE, mhop |-> TRUE, source |-> TRUE],
     [profile |-> FALSE, onlink |-> TRUE, mhop |-> TRUE, source |-> FALSE]}

\* BSS_UP omits the re-install
static_next_hop_bfd_change_up_silent(sn, state) ==
    CASE state \in {"BSS_UNKNOWN", "BSS_ADMIN_DOWN"} -> sn
      [] state = "BSS_DOWN" ->
           [sn EXCEPT !.path_down = TRUE, !.route_add = @ + 1]
      [] state = "BSS_UP" ->
           [sn EXCEPT !.path_down = FALSE]

static_next_hop_bfd_change(sn, state) ==
    CASE state \in {"BSS_UNKNOWN", "BSS_ADMIN_DOWN"} -> sn
      [] state = "BSS_DOWN" ->
           [sn EXCEPT !.path_down = TRUE, !.route_add = @ + 1]
      [] state = "BSS_UP" ->
           [sn EXCEPT !.path_down = FALSE, !.route_add = @ + 1]

static_next_hop_bfd_updatecb(sn, state) == static_next_hop_bfd_change(sn, state)

\* status is what bfd_sess_status(sn->bsp) answers once the session is installed
static_next_hop_bfd_monitor_enable(sn, dnode, status) ==
    IF sn.type \notin GatewayTypes
    THEN sn
    ELSE LET use_interface == sn.type \in {"STATIC_IPV4_GATEWAY_IFNAME",
                                           "STATIC_IPV6_GATEWAY_IFNAME"}
             family == IF sn.type \in {"STATIC_IPV4_GATEWAY",
                                       "STATIC_IPV4_GATEWAY_IFNAME"}
                       THEN "AF_INET" ELSE "AF_INET6"
             bsp0 == IF sn.bsp = bsp_null THEN bfd_sess_new ELSE sn.bsp
             bsp1 == IF sn.nh_vrf_id # "VRF_DEFAULT"
                     THEN [bsp0 EXCEPT !.vrf = sn.nh_vrf_id] ELSE bsp0
             bsp2 == [bsp1 EXCEPT !.source = dnode.source,
                                  !.family = family,
                                  !.interface = use_interface,
                                  !.profile = dnode.profile,
                                  !.hop_count =
                                      IF dnode.onlink \/ ~dnode.mhop
                                      THEN "BFD_SINGLE_HOP_COUNT"
                                      ELSE "BFD_MULTI_HOP_MAX_HOP_COUNT",
                                  !.installed = TRUE]
         IN  [sn EXCEPT !.bsp = bsp2, !.path_down = (status # "BSS_UP")]

static_next_hop_bfd_monitor_disable(sn) ==
    [sn EXCEPT !.bsp = bsp_null, !.path_down = FALSE]

\* the most recent UP or DOWN among the notifications a next hop received
\* since monitoring was last configured
recent_after(recent, state) ==
    IF state \in {"BSS_DOWN", "BSS_UP"} THEN state ELSE recent

InitBfd ==
    /\ bfd = [sn |-> [n \in NextHops |-> static_nexthop_new(static_nexthops[n])],
              recent |-> [n \in NextHops |-> "none"],
              notified |-> 0,
              event |-> [op |-> "none", sn |-> 0, state |-> "BSS_UNKNOWN"],
              srglist |-> <<>>, call |-> call_none, setters |-> 0]
    /\ input = input_none
    /\ s = [data |-> <<>>, getp |-> 0]
    /\ nlri = mp_bgpls_nlri_new
    /\ ret = "none"
    /\ log = log_new
    /\ pc = "ready"
    /\ te = te_none
    /\ build = [order |-> "big", ptr |-> 8]
    /\ vty = FALSE
    /\ show = show_new
    /\ isis = isis_new

NotBfd == <<input, s, nlri, ret, log, pc, te, build, vty, show, isis>>

BfdMonitorEnable ==
    \E n \in NextHops, dnode \in Dnodes, status \in BfdStates :
       /\ bfd' = [bfd EXCEPT
                    !.sn[n] = static_next_hop_bfd_monitor_enable(@, dnode, status),
                    !.recent[n] = "none",
                    !.event = [op |-> "enable", sn |-> n, state |-> "BSS_UNKNOWN"]]
       /\ UNCHANGED NotBfd

BfdMonitorDisable ==
    \E n \in NextHops :
       /\ bfd' = [bfd EXCEPT
                    !.sn[n] = static_next_hop_bfd_monitor_disable(@),
                    !.recent[n] = "none",
                    !.event = [op |-> "disable", sn |-> n, state |-> "BSS_UNKNOWN"]]
       /\ UNCHANGED NotBfd

\* the library calls the callback of an existing session with its new status
BfdNotify ==
    \E n \in NextHops, state \in BfdStates :
       /\ bfd.sn[n].bsp # bsp_null
       /\ bfd.notified < MaxNotifications
       /\ bfd' = [bfd EXCEPT
                    !.sn[n] = static_next_hop_bfd_updatecb(@, state),
                    !.recent[n] = recent_after(@, state),
                    !.notified = @ + 1,
                    !.event = [op |-> "notify", sn |-> n, state |-> state]]
       /\ UNCHANGED NotBfd

NextBfd == BfdMonitorEnable \/ BfdMonitorDisable \/ BfdNotify

SpecBfd == InitBfd /\ [][NextBfd]_vars

\* the step is a notification
Notified == bfd'.notified = bfd.notified + 1

(***************************************************************************)
(* C20: a BFD status notification applied to a static next hop sets        *)
(* path_down to true and re-installs the route when the state is DOWN,     *)
(* sets path_down to false and re-installs the route when the state is UP, *)
(* and for UNKNOWN or ADMIN_DOWN changes neither path_down nor the route;  *)
(* so after any sequence of notifications path_down is true exactly when   *)
(* the most recent UP/DOWN notification was DOWN.                          *)
(***************************************************************************)
C20_NotificationSetsPathDown ==
    /\ [][Notified =>
            LET n == bfd'.event.sn
                before == bfd.sn[n]
                after == bfd'.sn[n]
            IN  /\ bfd'.event.state = "BSS_DOWN" =>
                      after.path_down /\ after.route_add = before.route_add + 1
                /\ bfd'.event.state = "BSS_UP" =>
                      ~after.path_down /\ after.route_add = before.route_add + 1
                /\ bfd'.event.state \in {"BSS_UNKNOWN", "BSS_ADMIN_DOWN"} =>
                      /\ after.path_down = before.path_down
                      /\ after.route_add = before.route_add]_vars
    /\ [](\A n \in NextHops :
             /\ bfd.recent[n] = "BSS_DOWN" => bfd.sn[n].path_down
             /\ bfd.recent[n] = "BSS_UP" => ~bfd.sn[n].path_down)

\* an UP notification is followed by an ADMIN_DOWN one on the same next hop,
\* which had been down
C20_Witness ==
    /\ bfd.event.op = "notify"
    /\ bfd.event.state = "BSS_ADMIN_DOWN"
    /\ bfd.recent[bfd.event.sn] = "BSS_UP"
    /\ ~bfd.sn[bfd.event.sn].path_down
    /\ bfd.sn[bfd.event.sn].route_add > 1

(***************************************************************************)
(* staticd: route groups (staticd/static_bfd.c, from line 210).  A route   *)
(* group has a name, at most one BFD session and a list of members; a      *)
(* member points to its next hop and to its group.  sbglobal.sbg_srglist   *)
(* is the list of groups in creation order.                                *)
(***************************************************************************)
\* the group names configuration uses
GroupNames == {"g1", "g2"}

\* position of the first element of seq that satisfies Test, 0 when none does
RECURSIVE FirstFrom(_, _, _)
FirstFrom(seq, Test(_), k) ==
    IF k > Len(seq) THEN 0
    ELSE IF Test(seq[k]) THEN k
    ELSE FirstFrom(seq, Test, k + 1)

\* seq without its element at position k
Without(seq, k) == SubSeq(seq, 1, k - 1) \o SubSeq(seq, k + 1, Len(seq))

\* index of the group in sbg_srglist, 0 for NULL
static_route_group_lookup(b, name) ==
    LET Named(srg) == srg.srg_name = name
    IN  FirstFrom(b.srglist, Named, 1)

\* index of the member in srg_sgmlist, 0 for NULL
static_group_member_lookup(srg, n) ==
    LET Points(sgm) == sgm.sgm_sn = n
    IN  FirstFrom(srg.srg_sgmlist, Points, 1)

static_route_group_new(b, name) ==
    [b EXCEPT !.srglist = Append(@, [srg_name |-> name, srg_bsp |-> bsp_null,
                                     vrfname |-> "", srg_sgmlist |-> <<>>])]

\* the next hop keeps its own session
static_group_member_new_keeps_session(b, g, n) ==
    [b EXCEPT !.srglist[g].srg_sgmlist = Append(@, [sgm_sn |-> n, sgm_srg |-> "NULL"])]

\* the new member is the last of the list; sgm_srg is still NULL
static_group_member_new(b, g, n) ==
    [b EXCEPT !.sn[n].bsp = bsp_null,
              !.srglist[g].srg_sgmlist = Append(@, [sgm_sn |-> n, sgm_srg |-> "NULL"])]

\* the route is re-installed whatever path_down was
static_group_member_free_always_adds(b, g, m) ==
    LET sgm == b.srglist[g].srg_sgmlist[m]
        n == sgm.sgm_sn
        srg == static_route_group_lookup(b, sgm.sgm_srg)
    IN  [b EXCEPT !.sn[n].path_down = FALSE, !.sn[n].route_add = @ + 1,
                  !.srglist[srg].srg_sgmlist = Without(@, m)]

\* the member at position m of group g; its group is found through sgm_srg
static_group_member_free(b, g, m) ==
    LET sgm == b.srglist[g].srg_sgmlist[m]
        n == sgm.sgm_sn
        srg == static_route_group_lookup(b, sgm.sgm_srg)
        b1 == IF b.sn[n].path_down
              THEN [b EXCEPT !.sn[n].path_down = FALSE, !.sn[n].route_add = @ + 1]
              ELSE b
    IN  [b1 EXCEPT !.srglist[srg].srg_sgmlist = Without(@, m)]

\* while ((sgm = TAILQ_FIRST(...)) != NULL) static_group_member_free(&sgm)
RECURSIVE remove_all_members(_, _)
remove_all_members(b, g) ==
    IF b.srglist[g].srg_sgmlist = <<>> THEN b
    ELSE remove_all_members(static_group_member_free(b, g, 1), g)

static_route_group_free(b, g) ==
    LET b1 == [b EXCEPT !.srglist[g].srg_bsp = bsp_null]
        b2 == remove_all_members(b1, g)
    IN  [b2 EXCEPT !.srglist = Without(@, g)]

\* <<group, member>> of the first membership of the next hop, <<0, 0>> for NULL
static_group_member_glookup(b, n) ==
    LET Lists(srg) == static_group_member_lookup(srg, n) # 0
        g == FirstFrom(b.srglist, Lists, 1)
    IN  IF g = 0 THEN <<0, 0>>
        ELSE <<g, static_group_member_lookup(b.srglist[g], n)>>

\* the membership is not looked up before the member is made
static_group_monitor_enable_no_lookup(b, name, n, status) ==
    LET b0 == IF static_route_group_lookup(b, name) = 0
              THEN static_route_group_new(b, name) ELSE b
        g == static_route_group_lookup(b0, name)
        b1 == static_group_member_new(b0, g, n)
        m == Len(b1.srglist[g].srg_sgmlist)
    IN  [b1 EXCEPT !.srglist[g].srg_sgmlist[m] = [sgm_sn |-> n, sgm_srg |-> name],
                   !.sn[n].path_down =
                       (b1.srglist[g].srg_bsp = bsp_null \/ status # "BSS_UP")]

\* status is what bfd_sess_status(srg->srg_bsp) answers
static_group_monitor_enable(b, name, n, status) ==
    LET b0 == IF static_route_group_lookup(b, name) = 0
              THEN static_route_group_new(b, name) ELSE b
        g == static_route_group_lookup(b0, name)
    IN  IF static_group_member_lookup(b0.srglist[g], n) # 0
        THEN [b0 EXCEPT !.call.err = "membership already exists"]
        ELSE LET b1 == static_group_member_new(b0, g, n)
                 m == Len(b1.srglist[g].srg_sgmlist)
             IN  [b1 EXCEPT !.srglist[g].srg_sgmlist[m] =
                                [sgm_sn |-> n, sgm_srg |-> name],
                            !.sn[n].path_down =
                                (b1.srglist[g].srg_bsp = bsp_null \/ status # "BSS_UP")]

static_group_monitor_disable(b, name, n) ==
    LET g == static_route_group_lookup(b, name)
    IN  IF g = 0 THEN [b EXCEPT !.call.err = "no group named"]
        ELSE LET m == static_group_member_lookup(b.srglist[g], n)
             IN  IF m = 0 THEN [b EXCEPT !.call.err = "unable to find next hop in group"]
                 ELSE static_group_member_free(b, g, m)

(***************************************************************************)
(* staticd: the BFD session of a route group and the parameter setters.    *)
(* call.install records that the handler called bfd_sess_install.          *)
(***************************************************************************)
HopCount(mhop) == IF mhop THEN "BFD_MULTI_HOP_MAX_HOP_COUNT" ELSE "BFD_SINGLE_HOP_COUNT"

\* vrf_lookup_by_name: the VRF id of a name, VRF_UNKNOWN when there is none
VrfId(vrfname) ==
    CASE vrfname = "default" -> "VRF_DEFAULT"
      [] vrfname = "vrf1" -> "vrf1"
      [] OTHER -> "VRF_UNKNOWN"

\* srg->vrfname after the handler copied the configured name
VrfName(vrfname) == IF vrfname = "default" THEN "" ELSE vrfname

static_next_hop_bfd_multi_hop(b, n, mhop) ==
    IF b.sn[n].bsp = bsp_null THEN b
    ELSE [b EXCEPT !.sn[n].bsp.hop_count = HopCount(mhop),
                   !.sn[n].bsp.installed = TRUE,
                   !.call.install = TRUE]

static_next_hop_bfd_profile(b, n, name) ==
    IF b.sn[n].bsp = bsp_null THEN b
    ELSE [b EXCEPT !.sn[n].bsp.profile = name,
                   !.sn[n].bsp.installed = TRUE,
                   !.call.install = TRUE]

\* dnode: whether ./source and ../gateway exist and the gateway's family
static_next_hop_bfd_source(b, n, dnode) ==
    IF b.sn[n].bsp = bsp_null THEN b
    ELSE IF ~dnode.gateway THEN b
    ELSE [b EXCEPT !.sn[n].bsp.source = dnode.source,
                   !.sn[n].bsp.family = dnode.family]

\* changed is what bfd_sess_set_vrf answers
static_route_group_bfd_vrf(b, g, vrfname, changed) ==
    IF b.srglist[g].srg_bsp = bsp_null THEN b
    ELSE LET b1 == [b EXCEPT !.srglist[g].vrfname = VrfName(vrfname),
                             !.srglist[g].srg_bsp.vrf = VrfId(vrfname)]
         IN  IF changed
             THEN [b1 EXCEPT !.srglist[g].srg_bsp.installed = TRUE,
                             !.call.install = TRUE]
             ELSE b1

\* dnode: whether the source leaf exists and the peer's family
static_route_group_bfd_addresses(b, g, dnode) ==
    IF b.srglist[g].srg_bsp = bsp_null THEN b
    ELSE [b EXCEPT !.srglist[g].srg_bsp.source = dnode.source,
                   !.srglist[g].srg_bsp.family = dnode.family,
                   !.srglist[g].srg_bsp.installed = TRUE,
                   !.call.install = TRUE]

static_route_group_bfd_interface(b, g, ifname) ==
    IF b.srglist[g].srg_bsp = bsp_null THEN b
    ELSE [b EXCEPT !.srglist[g].srg_bsp.interface = ifname,
                   !.srglist[g].srg_bsp.installed = TRUE,
                   !.call.install = TRUE]

static_route_group_bfd_multi_hop(b, g, mhop) ==
    IF b.srglist[g].srg_bsp = bsp_null THEN b
    ELSE [b EXCEPT !.srglist[g].srg_bsp.hop_count = HopCount(mhop),
                   !.srglist[g].srg_bsp.installed = TRUE,
                   !.call.install = TRUE]

\* the profile is set whether or not the group has a session
static_route_group_bfd_profile_unguarded(b, g, profile) ==
    [b EXCEPT !.srglist[g].srg_bsp.profile = profile,
              !.srglist[g].srg_bsp.installed = TRUE,
              !.call.install = TRUE]

static_route_group_bfd_profile(b, g, profile) ==
    IF b.srglist[g].srg_bsp = bsp_null THEN b
    ELSE [b EXCEPT !.srglist[g].srg_bsp.profile = profile,
                   !.srglist[g].srg_bsp.installed = TRUE,
                   !.call.install = TRUE]

\* every member's next hop gets the notification, in list order
RECURSIVE change_members(_, _, _, _)
change_members(b, g, state, k) ==
    IF k > Len(b.srglist[g].srg_sgmlist) THEN b
    ELSE LET n == b.srglist[g].srg_sgmlist[k].sgm_sn
         IN  change_members([b EXCEPT !.sn[n] = static_next_hop_bfd_change(@, state)],
                            g, state, k + 1)

\* only the first member is notified
static_route_group_bfd_updatecb_first_only(b, g, state) ==
    IF b.srglist[g].srg_sgmlist = <<>> THEN b
    ELSE LET n == b.srglist[g].srg_sgmlist[1].sgm_sn
         IN  [b EXCEPT !.sn[n] = static_next_hop_bfd_change(@, state)]

static_route_group_bfd_updatecb(b, g, state) == change_members(b, g, state, 1)

\* dnode: interface, profile, multi-hop, vrf name, source, peer family
static_route_group_bfd_enable(b, g, dnode) ==
    LET b0 == IF b.srglist[g].srg_bsp = bsp_null
              THEN [b EXCEPT !.srglist[g].srg_bsp = bfd_sess_new] ELSE b
        b1 == [b0 EXCEPT !.srglist[g].vrfname = VrfName(dnode.vrf),
                         !.srglist[g].srg_bsp.vrf = VrfId(dnode.vrf)]
        b2 == static_route_group_bfd_addresses(b1, g, dnode)
    IN  [b2 EXCEPT !.srglist[g].srg_bsp.interface = dnode.interface,
                   !.srglist[g].srg_bsp.profile = dnode.profile,
                   !.srglist[g].srg_bsp.hop_count = HopCount(dnode.mhop),
                   !.srglist[g].srg_bsp.installed = TRUE,
                   !.call.install = TRUE]

static_route_group_bfd_disable(b, g) ==
    [b EXCEPT !.srglist[g].srg_bsp = bsp_null]

(***************************************************************************)
(* The route group state machine: configuration calls the handlers in any  *)
(* order, the BFD library notifies the sessions that exist.                *)
(***************************************************************************)
\* re-installs of one next hop's route in one run
MaxRouteAdds == 1

\* the BFD configuration node of a route group: a multi-hop session in a VRF,
\* with interface, profile and source
GroupDnodes ==
    {[interface |-> TRUE, profile |-> TRUE, mhop |-> TRUE, vrf |-> "vrf1",
      source |-> TRUE, family |-> "AF_INET6"]}

\* a handler of the route group code is entered: nothing reported yet
Entered == [bfd EXCEPT !.event = bfd_none.event, !.call = call_none]

\* no next hop's route was re-installed more often than the run allows
RouteAddsBounded(b) == \A n \in NextHops : b.sn[n].route_add <= MaxRouteAdds

\* the groups that exist, by position in sbg_srglist
Groups == 1..Len(bfd.srglist)

\* the next hops configuration puts into route groups: the gateways
GroupHops == {n \in NextHops : static_nexthops[n].type \in GatewayTypes}

\* a next hop's own monitoring with no profile, source or multi-hop
PlainDnode == [profile |-> FALSE, onlink |-> FALSE, mhop |-> FALSE, source |-> FALSE]

\* static_next_hop_bfd_monitor_enable as a step of the route group machine
NextHopMonitorEnable ==
    \E n \in NextHops, status \in BfdStates :
       /\ bfd' = [Entered EXCEPT
                    !.sn[n] = static_next_hop_bfd_monitor_enable(@, PlainDnode, status)]
       /\ UNCHANGED NotBfd

\* static_next_hop_bfd_monitor_disable as a step of the route group machine
NextHopMonitorDisable ==
    \E n \in NextHops :
       /\ bfd' = [Entered EXCEPT
                    !.sn[n] = static_next_hop_bfd_monitor_disable(@)]
       /\ UNCHANGED NotBfd

GroupMonitorEnable ==
    \E name \in GroupNames, n \in GroupHops, status \in BfdStates :
       /\ bfd' = static_group_monitor_enable(
                     Entered, name, n, status)
       /\ UNCHANGED NotBfd

GroupMonitorDisable ==
    \E name \in GroupNames, n \in GroupHops :
       /\ bfd' = static_group_monitor_disable(
                     Entered, name, n)
       /\ RouteAddsBounded(bfd')
       /\ UNCHANGED NotBfd

\* configuration creates a group under a name no group has
RouteGroupNew ==
    \E name \in GroupNames :
       /\ static_route_group_lookup(bfd, name) = 0
       /\ bfd' = static_route_group_new(
                     Entered, name)
       /\ UNCHANGED NotBfd

RouteGroupFree ==
    \E g \in Groups :
       /\ bfd' = static_route_group_free(
                     Entered, g)
       /\ RouteAddsBounded(bfd')
       /\ UNCHANGED NotBfd

RouteGroupBfdEnable ==
    \E g \in Groups, dnode \in GroupDnodes :
       /\ bfd' = static_route_group_bfd_enable(
                     Entered, g, dnode)
       /\ UNCHANGED NotBfd

RouteGroupBfdDisable ==
    \E g \in Groups :
       /\ bfd' = static_route_group_bfd_disable(
                     Entered, g)
       /\ UNCHANGED NotBfd

\* the library calls the callback of a group's session with its new status
GroupNotify ==
    \E g \in Groups, state \in BfdStates :
       /\ bfd.srglist[g].srg_bsp # bsp_null
       /\ bfd' = static_route_group_bfd_updatecb(Entered, g, state)
       /\ RouteAddsBounded(bfd')
       /\ UNCHANGED NotBfd

NextGroup ==
    \/ GroupMonitorEnable
    \/ GroupMonitorDisable
    \/ RouteGroupNew
    \/ RouteGroupFree
    \/ RouteGroupBfdEnable
    \/ RouteGroupBfdDisable
    \/ GroupNotify

\* route groups are configured while each gateway is monitored by a session
\* of its own, whose status is up or not
InitGroup ==
    /\ \E status \in [GroupHops -> BfdStates] :
          bfd = [bfd_none EXCEPT
                   !.sn = [n \in NextHops |->
                             IF n \in GroupHops
                             THEN static_next_hop_bfd_monitor_enable(
                                      static_nexthop_new(static_nexthops[n]),
                                      PlainDnode, status[n])
                             ELSE static_nexthop_new(static_nexthops[n])],
                   !.recent = [n \in NextHops |-> "none"]]
    /\ input = input_none
    /\ s = [data |-> <<>>, getp |-> 0]
    /\ nlri = mp_bgpls_nlri_new
    /\ ret = "none"
    /\ log = log_new
    /\ pc = "ready"
    /\ te = te_none
    /\ build = [order |-> "big", ptr |-> 8]
    /\ vty = FALSE
    /\ show = show_new
    /\ isis = isis_new

SpecGroup == InitGroup /\ [][NextGroup]_vars

\* the monitoring calls of the next hop configuration: a next hop's own
\* session and its group membership
NextMonitor ==
    \/ NextHopMonitorEnable
    \/ NextHopMonitorDisable
    \/ GroupMonitorEnable
    \/ GroupMonitorDisable

SpecMonitor == InitBfd /\ [][NextMonitor]_vars

\* the next hops the group at position g of b lists
Members(b, g) ==
    {b.srglist[g].srg_sgmlist[k].sgm_sn : k \in 1..Len(b.srglist[g].srg_sgmlist)}

(***************************************************************************)
(* C21: a status notification on a route group's BFD session is applied to *)
(* every current member of the group and to no other next hop: after DOWN  *)
(* every member has path_down true, after UP every member has path_down    *)
(* false, and the next hops outside the group are unchanged.               *)
(***************************************************************************)
C21_GroupNotificationReachesMembers ==
    [][\A g \in Groups, state \in BfdStates :
          (/\ bfd.srglist[g].srg_bsp # bsp_null
           /\ bfd' = static_route_group_bfd_updatecb(Entered, g, state)) =>
              /\ state = "BSS_DOWN" =>
                    \A n \in Members(bfd, g) : bfd'.sn[n].path_down
              /\ state = "BSS_UP" =>
                    \A n \in Members(bfd, g) : ~bfd'.sn[n].path_down
              /\ \A n \in NextHops \ Members(bfd, g) : bfd'.sn[n] = bfd.sn[n]
              /\ bfd'.srglist = bfd.srglist]_vars

\* a group with a session lists both gateways, both are up and both had
\* their route re-installed, while a gateway outside another group was not
C21_Witness ==
    \E g \in Groups :
       /\ bfd.srglist[g].srg_bsp # bsp_null
       /\ Members(bfd, g) = GroupHops
       /\ \A n \in GroupHops : ~bfd.sn[n].path_down /\ bfd.sn[n].route_add > 0
       /\ \E n \in NextHops \ GroupHops : bfd.sn[n].route_add = 0

\* the groups of b that carry the name
Named(b, name) == {g \in 1..Len(b.srglist) : b.srglist[g].srg_name = name}

(***************************************************************************)
(* C22: static_group_monitor_enable(name, sn) creates the group when no    *)
(* group has the name, and never makes a second membership: when sn is     *)
(* already a member of the named group the call reports an error and       *)
(* leaves the member lists, sn's path_down and sn's own session as they    *)
(* were; so each group lists a next hop at most once.                      *)
(***************************************************************************)
C22_NoDuplicateMembership ==
    /\ [][\A name \in GroupNames, n \in GroupHops, status \in BfdStates :
             bfd' = static_group_monitor_enable(Entered, name, n, status) =>
                /\ Cardinality(Named(bfd', name)) = 1
                /\ Named(bfd, name) = {} =>
                      Len(bfd'.srglist) = Len(bfd.srglist) + 1
                /\ (\E g \in Named(bfd, name) : n \in Members(bfd, g)) =>
                      /\ bfd'.call.err = "membership already exists"
                      /\ bfd'.srglist = bfd.srglist
                      /\ bfd'.sn = bfd.sn]_vars
    /\ [](\A g \in Groups :
             \A i, j \in 1..Len(bfd.srglist[g].srg_sgmlist) :
                i # j => bfd.srglist[g].srg_sgmlist[i].sgm_sn
                           # bfd.srglist[g].srg_sgmlist[j].sgm_sn)

\* a second enable was refused for a member that has a session of its own
\* and is not down
C22_Witness ==
    /\ bfd.call.err = "membership already exists"
    /\ \E g \in Groups :
          \E n \in Members(bfd, g) :
             /\ bfd.sn[n].bsp # bsp_null
             /\ ~bfd.sn[n].path_down
             /\ Len(bfd.srglist[g].srg_sgmlist) > 1

(***************************************************************************)
(* C23: when a next hop newly joins a route group, its own BFD session is  *)
(* freed and its path_down is set at once from the group: true when the    *)
(* group has no BFD session or the session's status is not UP, false       *)
(* exactly when the group's session status is UP.                          *)
(***************************************************************************)
C23_JoinTakesGroupStatus ==
    [][\A name \in GroupNames, n \in GroupHops, status \in BfdStates :
          (/\ \A g \in Named(bfd, name) : n \notin Members(bfd, g)
           /\ bfd' = static_group_monitor_enable(Entered, name, n, status)) =>
              \E g \in Named(bfd', name) :
                 /\ n \in Members(bfd', g)
                 /\ bfd'.sn[n].bsp = bsp_null
                 /\ bfd'.sn[n].path_down =
                       (bfd'.srglist[g].srg_bsp = bsp_null \/ status # "BSS_UP")]_vars

\* a gateway that had a session of its own is a member of a group whose
\* session is up: it has no session, is not down, and no route was re-installed
C23_Witness ==
    \E g \in Groups :
       \E n \in Members(bfd, g) :
          /\ bfd.srglist[g].srg_bsp # bsp_null
          /\ bfd.sn[n].bsp = bsp_null
          /\ ~bfd.sn[n].path_down
          /\ bfd.sn[n].route_add = 0

\* the next hop left a group: it is not down, and its route was re-installed
\* exactly when it had been down
Released(n) ==
    /\ ~bfd'.sn[n].path_down
    /\ bfd'.sn[n].route_add = bfd.sn[n].route_add + (IF bfd.sn[n].path_down THEN 1 ELSE 0)

(***************************************************************************)
(* C24: removing a group membership, by static_group_monitor_disable or    *)
(* for each member by static_route_group_free, leaves the next hop with    *)
(* path_down false, re-installs its route only when path_down was true     *)
(* before, and takes the member off the group's list; a disable that names *)
(* no group, or a next hop that is not a member, reports an error and      *)
(* changes nothing.                                                        *)
(***************************************************************************)
C24_RemovalResetsPathDown ==
    [][/\ \A name \in GroupNames, n \in GroupHops :
             bfd' = static_group_monitor_disable(Entered, name, n) =>
                IF \E g \in Named(bfd, name) : n \in Members(bfd, g)
                THEN /\ Released(n)
                     /\ \A g \in Named(bfd', name) : n \notin Members(bfd', g)
                     /\ Len(bfd'.srglist) = Len(bfd.srglist)
                ELSE /\ bfd'.call.err # "none"
                     /\ bfd'.sn = bfd.sn
                     /\ bfd'.srglist = bfd.srglist
       /\ \A g \in Groups :
             bfd' = static_route_group_free(Entered, g) =>
                /\ \A n \in Members(bfd, g) : Released(n)
                /\ \A n \in NextHops \ Members(bfd, g) : bfd'.sn[n] = bfd.sn[n]
                /\ Named(bfd', bfd.srglist[g].srg_name) = {}
                /\ Len(bfd'.srglist) = Len(bfd.srglist) - 1]_vars

\* no group is left; one gateway's route was re-installed when it lost its
\* membership, the other gateway's was not
C24_Witness ==
    /\ bfd.srglist = <<>>
    /\ bfd.call.err = "none"
    /\ \E n, k \in GroupHops :
          /\ bfd.sn[n].bsp = bsp_null /\ ~bfd.sn[n].path_down /\ bfd.sn[n].route_add = 1
          /\ bfd.sn[k].bsp = bsp_null /\ ~bfd.sn[k].path_down /\ bfd.sn[k].route_add = 0

(***************************************************************************)
(* The parameter setters: configuration changes one parameter of a next    *)
(* hop's or a group's BFD monitoring, whether or not a session exists.     *)
(***************************************************************************)
\* setter calls in one run
MaxSetterCalls == 2

\* the source node handed to static_next_hop_bfd_source: no gateway sibling,
\* an IPv4 gateway with a source, an IPv6 gateway without
SourceDnodes ==
    {[source |-> TRUE, gateway |-> FALSE, family |-> "AF_INET"],
     [source |-> TRUE, gateway |-> TRUE, family |-> "AF_INET"],
     [source |-> FALSE, gateway |-> TRUE, family |-> "AF_INET6"]}

\* the node handed to static_route_group_bfd_addresses
AddressDnodes ==
    {[source |-> FALSE, family |-> "AF_INET"], [source |-> TRUE, family |-> "AF_INET6"]}

\* a setter is entered
EnteredSetter == [Entered EXCEPT !.setters = @ + 1]

NextHopBfdMultiHop ==
    \E n \in NextHops, mhop \in BOOLEAN :
       /\ bfd.setters < MaxSetterCalls
       /\ bfd' = static_next_hop_bfd_multi_hop(EnteredSetter, n, mhop)
       /\ UNCHANGED NotBfd

NextHopBfdProfile ==
    \E n \in NextHops, name \in BOOLEAN :
       /\ bfd.setters < MaxSetterCalls
       /\ bfd' = static_next_hop_bfd_profile(EnteredSetter, n, name)
       /\ UNCHANGED NotBfd

NextHopBfdSource ==
    \E n \in NextHops, dnode \in SourceDnodes :
       /\ bfd.setters < MaxSetterCalls
       /\ bfd' = static_next_hop_bfd_source(EnteredSetter, n, dnode)
       /\ UNCHANGED NotBfd

RouteGroupBfdVrf ==
    \E g \in Groups, vrfname \in {"default", "vrf1"}, changed \in BOOLEAN :
       /\ bfd.setters < MaxSetterCalls
       /\ bfd' = static_route_group_bfd_vrf(EnteredSetter, g, vrfname, changed)
       /\ UNCHANGED NotBfd

RouteGroupBfdAddresses ==
    \E g \in Groups, dnode \in AddressDnodes :
       /\ bfd.setters < MaxSetterCalls
       /\ bfd' = static_route_group_bfd_addresses(EnteredSetter, g, dnode)
       /\ UNCHANGED NotBfd

RouteGroupBfdInterface ==
    \E g \in Groups, ifname \in BOOLEAN :
       /\ bfd.setters < MaxSetterCalls
       /\ bfd' = static_route_group_bfd_interface(EnteredSetter, g, ifname)
       /\ UNCHANGED NotBfd

RouteGroupBfdMultiHop ==
    \E g \in Groups, mhop \in BOOLEAN :
       /\ bfd.setters < MaxSetterCalls
       /\ bfd' = static_route_group_bfd_multi_hop(EnteredSetter, g, mhop)
       /\ UNCHANGED NotBfd

RouteGroupBfdProfile ==
    \E g \in Groups, profile \in BOOLEAN :
       /\ bfd.setters < MaxSetterCalls
       /\ bfd' = static_route_group_bfd_profile(EnteredSetter, g, profile)
       /\ UNCHANGED NotBfd

NextSetters ==
    \/ NextHopMonitorEnable
    \/ NextHopMonitorDisable
    \/ RouteGroupNew
    \/ RouteGroupBfdEnable
    \/ RouteGroupBfdDisable
    \/ NextHopBfdMultiHop
    \/ NextHopBfdProfile
    \/ NextHopBfdSource
    \/ RouteGroupBfdVrf
    \/ RouteGroupBfdAddresses
    \/ RouteGroupBfdInterface
    \/ RouteGroupBfdMultiHop
    \/ RouteGroupBfdProfile

SpecSetters == InitBfd /\ [][NextSetters]_vars

\* the step is a call of a next hop setter on next hop n
NextHopSetterStep(n) ==
    \/ \E mhop \in BOOLEAN : bfd' = static_next_hop_bfd_multi_hop(EnteredSetter, n, mhop)
    \/ \E name \in BOOLEAN : bfd' = static_next_hop_bfd_profile(EnteredSetter, n, name)
    \/ \E dnode \in SourceDnodes : bfd' = static_next_hop_bfd_source(EnteredSetter, n, dnode)

\* the step is a call of a group setter on the group at position g
GroupSetterStep(g) ==
    \/ \E vrfname \in {"default", "vrf1"}, changed \in BOOLEAN :
          bfd' = static_route_group_bfd_vrf(EnteredSetter, g, vrfname, changed)
    \/ \E dnode \in AddressDnodes :
          bfd' = static_route_group_bfd_addresses(EnteredSetter, g, dnode)
    \/ \E ifname \in BOOLEAN :
          bfd' = static_route_group_bfd_interface(EnteredSetter, g, ifname)
    \/ \E mhop \in BOOLEAN :
          bfd' = static_route_group_bfd_multi_hop(EnteredSetter, g, mhop)
    \/ \E profile \in BOOLEAN :
          bfd' = static_route_group_bfd_profile(EnteredSetter, g, profile)

\* the next hops and groups of b that have a BFD session
Sessions(b) ==
    [sn |-> {n \in NextHops : b.sn[n].bsp # bsp_null},
     srg |-> {g \in 1..Len(b.srglist) : b.srglist[g].srg_bsp # bsp_null}]

(***************************************************************************)
(* C25: the BFD parameter setters do nothing without a session: the three  *)
(* next hop setters change nothing and install nothing when the next hop   *)
(* has no session, the five group setters change nothing and install       *)
(* nothing when the group has no session, and no setter creates a session. *)
(***************************************************************************)
C25_SettersNeedSession ==
    [][/\ \A n \in NextHops :
             (bfd'.setters = bfd.setters + 1 /\ NextHopSetterStep(n)) =>
                /\ Sessions(bfd') = Sessions(bfd)
                /\ bfd.sn[n].bsp = bsp_null =>
                      /\ bfd'.sn = bfd.sn
                      /\ bfd'.srglist = bfd.srglist
                      /\ ~bfd'.call.install
       /\ \A g \in Groups :
             (bfd'.setters = bfd.setters + 1 /\ GroupSetterStep(g)) =>
                /\ Sessions(bfd') = Sessions(bfd)
                /\ bfd.srglist[g].srg_bsp = bsp_null =>
                      /\ bfd'.sn = bfd.sn
                      /\ bfd'.srglist = bfd.srglist
                      /\ ~bfd'.call.install]_vars

\* setters were called, the last call installed nothing, and there are a
\* group and a gateway that never got a session
C25_Witness ==
    /\ bfd.setters = MaxSetterCalls
    /\ ~bfd.call.install
    /\ Sessions(bfd) = [sn |-> {}, srg |-> {}]
    /\ bfd.srglist # <<>>
    /\ \A g \in Groups : bfd.srglist[g].vrfname = ""

(***************************************************************************)
(* lib/isis.c: lib_isis_format_id formats a system identifier into one of  *)
(* FORMAT_BUF_COUNT static buffers and returns that buffer.  buf_ring[i]   *)
(* holds the buffer's text and the number of the call that wrote it;       *)
(* returned lists, call by call, the buffer and the text handed out.       *)
(***************************************************************************)
\* calls of lib_isis_format_id in one run
MaxFormatCalls == 6

\* the identifiers callers pass: none, or eight bytes of which len are used
FormatIds == {<<>>, <<0, 1, 2, 171, 205, 239, 16, 255>>}

FormatLens == {5, 6, 7, 8}

HexDigit(d) ==
    CASE d = 0 -> "0" [] d = 1 -> "1" [] d = 2 -> "2" [] d = 3 -> "3"
      [] d = 4 -> "4" [] d = 5 -> "5" [] d = 6 -> "6" [] d = 7 -> "7"
      [] d = 8 -> "8" [] d = 9 -> "9" [] d = 10 -> "a" [] d = 11 -> "b"
      [] d = 12 -> "c" [] d = 13 -> "d" [] d = 14 -> "e" [] d = 15 -> "f"

\* %02x
Hex02(byte) == HexDigit(byte \div 16) \o HexDigit(byte % 16)

\* the text snprintf leaves in the buffer; id = <<>> stands for a NULL id
format_id_text(id, len) ==
    IF id = <<>> THEN "unknown"
    ELSE IF len < 6 THEN "Short ID"
    ELSE LET sysid == Hex02(id[1]) \o Hex02(id[2]) \o "." \o Hex02(id[3])
                        \o Hex02(id[4]) \o "." \o Hex02(id[5]) \o Hex02(id[6])
             pseudo == IF len > 6 THEN "." \o Hex02(id[7]) ELSE ""
             frag == IF len > 7 THEN "-" \o Hex02(id[8]) ELSE ""
         IN  sysid \o pseudo \o frag

\* the ring wraps one buffer early
lib_isis_format_id_wraps_early(st, id, len) ==
    LET next == IF st.cur_buf + 1 >= FORMAT_BUF_COUNT - 1 THEN 0 ELSE st.cur_buf + 1
        text == format_id_text(id, len)
        call == Len(st.returned) + 1
    IN  [cur_buf |-> next,
         buf_ring |-> [st.buf_ring EXCEPT ![next] = [text |-> text, call |-> call]],
         returned |-> Append(st.returned, [buf |-> next, text |-> text])]

lib_isis_format_id(st, id, len) ==
    LET next == IF st.cur_buf + 1 >= FORMAT_BUF_COUNT THEN 0 ELSE st.cur_buf + 1
        text == format_id_text(id, len)
        call == Len(st.returned) + 1
    IN  [cur_buf |-> next,
         buf_ring |-> [st.buf_ring EXCEPT ![next] = [text |-> text, call |-> call]],
         returned |-> Append(st.returned, [buf |-> next, text |-> text])]

InitIsis ==
    /\ isis = isis_new
    /\ bfd = bfd_none
    /\ input = input_none
    /\ s = [data |-> <<>>, getp |-> 0]
    /\ nlri = mp_bgpls_nlri_new
    /\ ret = "none"
    /\ log = log_new
    /\ pc = "ready"
    /\ te = te_none
    /\ build = [order |-> "big", ptr |-> 8]
    /\ vty = FALSE
    /\ show = show_new

FormatId ==
    \E id \in FormatIds, len \in FormatLens :
       /\ Len(isis.returned) < MaxFormatCalls
       /\ isis' = lib_isis_format_id(isis, id, len)
       /\ UNCHANGED <<input, s, nlri, ret, log, pc, te, build, vty, show, bfd>>

NextIsis == FormatId

SpecIsis == InitIsis /\ [][NextIsis]_vars

\* call k's text is still what its buffer holds
Holds(k) ==
    /\ isis.buf_ring[isis.returned[k].buf].call = k
    /\ isis.buf_ring[isis.returned[k].buf].text = isis.returned[k].text

(***************************************************************************)
(* C26: lib_isis_format_id rotates through a ring of 4 scratch buffers:    *)
(* the ring index stays in 0..3 after any number of calls, any 4           *)
(* consecutive calls return 4 pairwise distinct buffers, and the text a    *)
(* call returned is overwritten by exactly the 4th later call and by no    *)
(* earlier one.                                                            *)
(***************************************************************************)
C26_RingOfFourBuffers ==
    LET calls == Len(isis.returned)
    IN  /\ isis.cur_buf \in 0..3
        /\ \A k, j \in 1..calls :
              (k < j /\ j < k + 4) => isis.returned[k].buf # isis.returned[j].buf
        /\ \A k \in 1..calls :
              /\ calls < k + 4 => Holds(k)
              /\ calls >= k + 4 =>
                    /\ isis.returned[k + 4].buf = isis.returned[k].buf
                    /\ ~Holds(k)

\* five calls were made: the first call's text is gone, the second's is
\* still there, and the two texts differ
C26_Witness ==
    /\ Len(isis.returned) = 5
    /\ ~Holds(1)
    /\ Holds(2)
    /\ isis.returned[1].text = "0001.02ab.cdef.10-ff"
    /\ isis.returned[5].text = "unknown"
    /\ isis.buf_ring[isis.returned[1].buf].text = "unknown"

(***************************************************************************)
(* C27: after any sequence of static_next_hop_bfd_monitor_enable,          *)
(* static_next_hop_bfd_monitor_disable, static_group_monitor_enable and    *)
(* static_group_monitor_disable calls, a next hop that is a member of a    *)
(* route group has no BFD session of its own.                              *)
(***************************************************************************)
C27_MemberHasNoOwnSession ==
    \A g \in Groups :
       \A n \in Members(bfd, g) : bfd.sn[n].bsp = bsp_null

\* the groups that list the next hop
GroupsOf(n) == {g \in Groups : n \in Members(bfd, g)}

(***************************************************************************)
(* C28: after any sequence of static_group_monitor_enable,                 *)
(* static_group_monitor_disable and static_route_group_free calls, a next  *)
(* hop is a member of at most one route group, so the membership that      *)
(* static_group_member_glookup finds is the only one.                      *)
(***************************************************************************)
C28_OneGroupPerNextHop ==
    \A n \in NextHops :
       /\ Cardinality(GroupsOf(n)) <= 1
       /\ GroupsOf(n) \subseteq {static_group_member_glookup(bfd, n)[1]}

====
